---- MODULE Spec2Model ----
(***************************************************************************)
(* Ingestion / data-quality pipeline of the weekly defect reporting        *)
(* service (src/src/services/ingestService.ts, src/src/db/queries.ts).     *)
(*                                                                         *)
(* The stored tables are the state.  Every exported entry point            *)
(* (processProductionLogs, processShippingLogs, processAllLogs) is one     *)
(* action: BEGIN, the selection of the batch, the per-record loop, and     *)
(* COMMIT or ROLLBACK.                                                     *)
(***************************************************************************)
EXTENDS Integers, Sequences, FiniteSets, TLC

(***************************************************************************)
(* Bounds of the model.                                                    *)
(***************************************************************************)
NumProd == 3        \* raw production log rows
NumShip == 1        \* raw shipping log rows
MaxRuns == 2        \* entry-point invocations explored

(***************************************************************************)
(* Program constants.                                                      *)
(***************************************************************************)
DEFAULT_BATCH_SIZE == 500

\* Batch sizes a caller passes (the default, and the smallest override).
BatchSizes == {1, DEFAULT_BATCH_SIZE}

(***************************************************************************)
(* Values.  SQL NULL for a key column is 0 (serial keys start at 1, and    *)
(* the code tests keys by truthiness).  Text is a sequence of characters;  *)
(* NullText is SQL NULL.  A date is <<year, month, day>>.                  *)
(***************************************************************************)
NullKey == 0
NullText == <<"NULL">>
NullDate == <<0, 0, 0>>

\* JavaScript truthiness of a text value: null and "" are falsy.
Truthy(text) == text # NullText /\ text # <<>>

Min(a, b) == IF a < b THEN a ELSE b

Last(seq) == seq[Len(seq)]

(***************************************************************************)
(* Normalizer: ops.normalize_label / ops.normalize_lot_id, database        *)
(* functions called through NORMALIZE_LABEL_SQL and NORMALIZE_LOT_ID_SQL.  *)
(***************************************************************************)
Capitals ==
  {"A", "B", "C", "D", "E", "F", "G", "H", "I", "J", "K", "L", "M",
   "N", "O", "P", "Q", "R", "S", "T", "U", "V", "W", "X", "Y", "Z"}
Digits == {"0", "1", "2", "3", "4", "5", "6", "7", "8", "9"}

ToLower(c) ==
  CASE c = "A" -> "a" [] c = "B" -> "b" [] c = "C" -> "c" [] c = "D" -> "d"
    [] c = "E" -> "e" [] c = "F" -> "f" [] c = "G" -> "g" [] c = "H" -> "h"
    [] c = "I" -> "i" [] c = "J" -> "j" [] c = "K" -> "k" [] c = "L" -> "l"
    [] c = "M" -> "m" [] c = "N" -> "n" [] c = "O" -> "o" [] c = "P" -> "p"
    [] c = "Q" -> "q" [] c = "R" -> "r" [] c = "S" -> "s" [] c = "T" -> "t"
    [] c = "U" -> "u" [] c = "V" -> "v" [] c = "W" -> "w" [] c = "X" -> "x"
    [] c = "Y" -> "y" [] c = "Z" -> "z"
    [] OTHER -> c

ToUpper(c) ==
  CASE c = "a" -> "A" [] c = "b" -> "B" [] c = "c" -> "C" [] c = "d" -> "D"
    [] c = "e" -> "E" [] c = "f" -> "F" [] c = "g" -> "G" [] c = "h" -> "H"
    [] c = "i" -> "I" [] c = "j" -> "J" [] c = "k" -> "K" [] c = "l" -> "L"
    [] c = "m" -> "M" [] c = "n" -> "N" [] c = "o" -> "O" [] c = "p" -> "P"
    [] c = "q" -> "Q" [] c = "r" -> "R" [] c = "s" -> "S" [] c = "t" -> "T"
    [] c = "u" -> "U" [] c = "v" -> "V" [] c = "w" -> "W" [] c = "x" -> "X"
    [] c = "y" -> "Y" [] c = "z" -> "Z"
    [] OTHER -> c

RECURSIVE TrimLeft(_)
TrimLeft(text) ==
  IF text # <<>> /\ Head(text) = " " THEN TrimLeft(Tail(text)) ELSE text

RECURSIVE TrimRight(_)
TrimRight(text) ==
  IF text # <<>> /\ Last(text) = " "
  THEN TrimRight(SubSeq(text, 1, Len(text) - 1))
  ELSE text

Trim(text) == TrimRight(TrimLeft(text))

\* Runs of blanks become one blank.
RECURSIVE CollapseSpaces(_)
CollapseSpaces(text) ==
  IF Len(text) < 2 THEN text
  ELSE IF text[1] = " " /\ text[2] = " " THEN CollapseSpaces(Tail(text))
  ELSE <<Head(text)>> \o CollapseSpaces(Tail(text))

\* normalize_label: trim, case-fold, collapse inner whitespace; NULL for
\* NULL, empty or whitespace-only input.
normalizeLabel(label) ==
  IF label = NullText THEN NullText
  ELSE LET folded == [i \in 1..Len(label) |-> ToLower(label[i])]
           norm == CollapseSpaces(Trim(folded))
       IN IF norm = <<>> THEN NullText ELSE norm

\* normalize_lot_id: upper-case and keep letters and digits only (separators
\* and punctuation dropped); NULL when nothing is left.
normalizeLotId(lotIdRaw) ==
  IF lotIdRaw = NullText THEN NullText
  ELSE LET upper == [i \in 1..Len(lotIdRaw) |-> ToUpper(lotIdRaw[i])]
           norm == SelectSeq(upper, LAMBDA c : c \in Capitals \cup Digits)
       IN IF norm = <<>> THEN NullText ELSE norm

(***************************************************************************)
(* Date helpers (src/src/utils/asyncHandler.ts, the date module).          *)
(***************************************************************************)
IsLeap(y) == (y % 4 = 0 /\ y % 100 # 0) \/ y % 400 = 0

DaysInMonth(y, m) ==
  CASE m \in {4, 6, 9, 11} -> 30
    [] m = 2 -> IF IsLeap(y) THEN 29 ELSE 28
    [] OTHER -> 31

\* The day number (whole days since 1970-01-01) of day d of month m of year
\* y; d may be <= 0 (it rolls over into the previous month).
DaysFromCivil(y, m, d) ==
  LET yy == IF m <= 2 THEN y - 1 ELSE y
      era == yy \div 400
      yoe == yy - era * 400
      mp == IF m > 2 THEN m - 3 ELSE m + 9
      doy == (153 * mp + 2) \div 5
      doe == yoe * 365 + yoe \div 4 - yoe \div 100 + doy
  IN era * 146097 + doe - 719468 + (d - 1)

\* Date.UTC(y, m, d) in whole days: a year from 0 to 99 stands for 1900 + y.
DateUTC(y, m, d) == DaysFromCivil(IF y \in 0..99 THEN 1900 + y ELSE y, m, d)

\* getUTCFullYear / getUTCMonth / getUTCDate of a day number.
CivilFromDays(z) ==
  LET zz == z + 719468
      era == zz \div 146097
      doe == zz - era * 146097
      yoe == (doe - doe \div 1460 + doe \div 36524 - doe \div 146096) \div 365
      doy == doe - (365 * yoe + yoe \div 4 - yoe \div 100)
      mp == (5 * doy + 2) \div 153
      d == doy - (153 * mp + 2) \div 5 + 1
      m == IF mp < 10 THEN mp + 3 ELSE mp - 9
      y == yoe + era * 400 + (IF m <= 2 THEN 1 ELSE 0)
  IN <<y, m, d>>

\* Variant: the days numbered from Monday.
GetUTCDayFromMonday(z) == (z + 3) % 7

\* getUTCDay: 0 = Sunday .. 6 = Saturday (1970-01-01 was a Thursday).
GetUTCDay(z) == (z + 4) % 7

\* parseIsoDateUTC: the day number of a YYYY-MM-DD value, or -1 (null) when
\* the value is not a calendar date.
NoDate == -1
parseIsoDateUTC(value) ==
  LET y == value[1]
      m == value[2]
      d == value[3]
  IN IF y \in 0..9999 /\ m \in 1..12 /\ d \in 1..DaysInMonth(y, m)
     THEN DaysFromCivil(y, m, d)
     ELSE NoDate

\* getWeekStartUTC: midnight UTC of the Monday on or before the date.
getWeekStartUTC(z) ==
  LET utcDay == GetUTCDay(z)
      daysSinceMonday == (utcDay + 6) % 7
      ymd == CivilFromDays(z)
  IN DateUTC(ymd[1], ymd[2], ymd[3] - daysSinceMonday)

\* toIsoDateUTC: the YYYY-MM-DD of a day number.
toIsoDateUTC(z) == CivilFromDays(z)

\* coerceDateToIso: a Date object (what the driver returns for a DATE
\* column) is formatted through toIsoDateUTC; any other value is assumed to
\* be a YYYY-MM-DD string already and is returned as is.
coerceDateToIso(value) ==
  IF parseIsoDateUTC(value) # NoDate
  THEN toIsoDateUTC(DaysFromCivil(value[1], value[2], value[3]))
  ELSE value

(***************************************************************************)
(* Storage.  A database state is a record of tables                        *)
(*   prod, ship  : raw log rows by key                                     *)
(*   lots        : ops.dim_lot                                             *)
(*   issueTypes  : ops.dim_issue_type                                      *)
(*   ledger      : ops.lot_line_assignment                                 *)
(*   events      : ops.fact_issue_event                                    *)
(*   flags       : ops.data_quality_flag                                   *)
(* and each statement of src/src/db/queries.ts is an operator on it.       *)
(***************************************************************************)

\* A serial key: rows are never deleted, so the next value is the count + 1.
NextKey(table) == Cardinality(table) + 1

\* Variant: the flag statement replacing the flag its record already has.
insertFlagReplacingRecordFlag(db, flagType, source, reason, missingFields, lotIdRaw, lotIdNorm, productionLogKey, shippingLogKey) ==
  [db EXCEPT !.flags =
     {f \in @ : \/ f.production_log_key # productionLogKey
                \/ f.shipping_log_key # shippingLogKey}
       \cup
     {[flag_key |-> NextKey(db.flags),
       flag_type |-> flagType,
       source |-> source,
       flag_reason |-> reason,
       missing_fields |-> missingFields,
       lot_id_raw |-> lotIdRaw,
       lot_id_norm |-> lotIdNorm,
       production_log_key |-> productionLogKey,
       shipping_log_key |-> shippingLogKey,
       issue_event_key |-> NullKey]}]

\* INSERT_DQ_FLAG_SQL through insertFlag.
insertFlag(db, flagType, source, reason, missingFields, lotIdRaw, lotIdNorm, productionLogKey, shippingLogKey) ==
  [db EXCEPT !.flags = @ \cup
     {[flag_key |-> NextKey(db.flags),
       flag_type |-> flagType,
       source |-> source,
       flag_reason |-> reason,
       missing_fields |-> missingFields,
       lot_id_raw |-> lotIdRaw,
       lot_id_norm |-> lotIdNorm,
       production_log_key |-> productionLogKey,
       shipping_log_key |-> shippingLogKey,
       issue_event_key |-> NullKey]}]

\* Variant: an event that fills both reference columns.
InsertIssueEventBothReferences(db, eventSource, eventDate, weekStart, lineKey, lotKey, issueTypeKey, qtyImpacted, productionLogKey, shippingLogKey) ==
  [db EXCEPT !.events = @ \cup
     {[issue_event_key |-> NextKey(db.events),
       event_source |-> eventSource,
       event_date |-> eventDate,
       week_start_date |-> weekStart,
       production_line_key |-> lineKey,
       lot_key |-> lotKey,
       issue_type_key |-> issueTypeKey,
       qty_impacted |-> qtyImpacted,
       production_log_key |-> productionLogKey,
       shipping_log_key |-> IF shippingLogKey = NullKey
                            THEN productionLogKey ELSE shippingLogKey]}]

\* INSERT_ISSUE_EVENT_SQL.
InsertIssueEvent(db, eventSource, eventDate, weekStart, lineKey, lotKey, issueTypeKey, qtyImpacted, productionLogKey, shippingLogKey) ==
  [db EXCEPT !.events = @ \cup
     {[issue_event_key |-> NextKey(db.events),
       event_source |-> eventSource,
       event_date |-> eventDate,
       week_start_date |-> weekStart,
       production_line_key |-> lineKey,
       lot_key |-> lotKey,
       issue_type_key |-> issueTypeKey,
       qty_impacted |-> qtyImpacted,
       production_log_key |-> productionLogKey,
       shipping_log_key |-> shippingLogKey]}]

\* Variant: the insert without its ON CONFLICT clause.
UpsertIssueTypeNoConflictClause(db, source, issueLabel, normalized) ==
  [db |-> [db EXCEPT !.issueTypes = @ \cup
             {[issue_type_key |-> NextKey(db.issueTypes),
               source |-> source,
               issue_label |-> issueLabel,
               issue_label_norm |-> normalized]}],
   key |-> NextKey(db.issueTypes)]

\* Variant: on a clash the stored label is replaced by the new spelling.
UpsertIssueTypeOverwritingLabel(db, source, issueLabel, normalized) ==
  IF \E it \in db.issueTypes :
       it.source = source /\ it.issue_label_norm = normalized
  THEN [db |-> [db EXCEPT !.issueTypes =
                  {IF it.source = source /\ it.issue_label_norm = normalized
                   THEN [it EXCEPT !.issue_label = issueLabel] ELSE it :
                     it \in @}],
        key |-> (CHOOSE it \in db.issueTypes :
                   it.source = source /\ it.issue_label_norm = normalized)
                  .issue_type_key]
  ELSE UpsertIssueTypeNoConflictClause(db, source, issueLabel, normalized)

\* UPSERT_ISSUE_TYPE_SQL: insert, or on a (source, issue_label_norm) clash
\* keep the stored row; either way the row's key is returned.
UpsertIssueType(db, source, issueLabel, normalized) ==
  LET existing == {it \in db.issueTypes :
                     it.source = source /\ it.issue_label_norm = normalized}
  IN IF existing # {}
     THEN [db |-> db, key |-> (CHOOSE it \in existing : TRUE).issue_type_key]
     ELSE [db |-> [db EXCEPT !.issueTypes = @ \cup
                      {[issue_type_key |-> NextKey(db.issueTypes),
                        source |-> source,
                        issue_label |-> issueLabel,
                        issue_label_norm |-> normalized]}],
           key |-> NextKey(db.issueTypes)]

\* Variant: the lookup without its WHERE clause.
FindLotAny(db, lotIdNorm) == db.lots

\* FIND_LOT_SQL: the lot rows with that normalized id.
FindLot(db, lotIdNorm) == {l \in db.lots : l.lot_id_norm = lotIdNorm}

\* FIND_LOT_BY_KEY_SQL.
FindLotByKey(db, lotKey) == {l \in db.lots : l.lot_key = lotKey}

\* Variant: the update storing the key of the next lot.
UpdateProdLogLotNextKey(db, lotKey, sourceKey) ==
  [db EXCEPT !.prod[sourceKey].lot_key = lotKey + 1]

\* UPDATE_PROD_LOG_LOT_SQL.
UpdateProdLogLot(db, lotKey, sourceKey) ==
  [db EXCEPT !.prod[sourceKey].lot_key = lotKey]

\* UPDATE_SHIP_LOG_LOT_SQL.
UpdateShipLogLot(db, lotKey, sourceKey) ==
  [db EXCEPT !.ship[sourceKey].lot_key = lotKey]

\* Variant: the lookup without its WHERE clause.
FindLotAssignmentAnyLot(db, lotKey) ==
  LET rows == db.ledger
  IN IF rows = {} THEN NullKey
     ELSE (CHOOSE a \in rows : \A b \in rows : a.lot_line_key <= b.lot_line_key)
            .production_line_key

\* FIND_LOT_ASSIGNMENT_SQL and the caller's rows[0]?.production_line_key ?? null.
FindLotAssignment(db, lotKey) ==
  LET rows == {a \in db.ledger : a.lot_key = lotKey}
  IN IF rows = {} THEN NullKey
     ELSE (CHOOSE a \in rows : \A b \in rows : a.lot_line_key <= b.lot_line_key)
            .production_line_key

\* INSERT_LOT_ASSIGNMENT_SQL.
InsertLotAssignment(db, lotKey, lineKey) ==
  [db EXCEPT !.ledger = @ \cup
     {[lot_line_key |-> NextKey(db.ledger),
       lot_key |-> lotKey,
       production_line_key |-> lineKey]}]

\* The first n elements of the ascending enumeration of a set of keys.
RECURSIVE Ascending(_)
Ascending(keys) ==
  IF keys = {} THEN <<>>
  ELSE LET k == CHOOSE x \in keys : \A y \in keys : x <= y
       IN <<k>> \o Ascending(keys \ {k})

Limit(seq, n) == SubSeq(seq, 1, Min(n, Len(seq)))

\* Variant: the selection without its anti-join on fact_issue_event.
UnprocessedProductionKeysNoAntiJoin(db) == DOMAIN db.prod

\* UNPROCESSED_PRODUCTION_LOGS_SQL: the rows with no issue event, by key.
UnprocessedProductionKeys(db) ==
  {k \in DOMAIN db.prod :
     ~ \E ie \in db.events : ie.production_log_key = k}

UnprocessedProductionLogs(db, limit) ==
  LET keys == Limit(Ascending(UnprocessedProductionKeys(db)), limit)
  IN [i \in 1..Len(keys) |-> db.prod[keys[i]]]

\* UNPROCESSED_SHIPPING_LOGS_SQL.
UnprocessedShippingKeys(db) ==
  {k \in DOMAIN db.ship :
     ~ \E ie \in db.events : ie.shipping_log_key = k}

UnprocessedShippingLogs(db, limit) ==
  LET keys == Limit(Ascending(UnprocessedShippingKeys(db)), limit)
  IN [i \in 1..Len(keys) |-> db.ship[keys[i]]]

(***************************************************************************)
(* Service (src/src/services/ingestService.ts).                            *)
(***************************************************************************)

\* Variant: the upsert issued whatever the label normalizes to.
ensureIssueTypeUnchecked(db, source, issueLabel) ==
  [db |-> UpsertIssueType(db, source, issueLabel,
                          normalizeLabel(issueLabel)).db,
   key |-> UpsertIssueType(db, source, issueLabel,
                           normalizeLabel(issueLabel)).key,
   wrote |-> TRUE]

\* ensureIssueType: -1 for a label that normalizes to nothing, else the key
\* of the upserted row.  wrote tells whether the upsert statement was issued.
ensureIssueType(db, source, issueLabel) ==
  LET normalized == normalizeLabel(issueLabel)
  IN IF ~ Truthy(normalized)
     THEN [db |-> db, key |-> -1, wrote |-> FALSE]
     ELSE LET up == UpsertIssueType(db, source, issueLabel, normalized)
          IN [db |-> up.db, key |-> up.key, wrote |-> TRUE]

\* resolveLotKey: the pre-resolved key is trusted; otherwise the raw id is
\* normalized and looked up, and a found key is written back on the log row.
resolveLotKey(db, source, sourceKey, lotKey, lotIdRaw) ==
  IF lotKey # NullKey
  THEN LET lotRow == FindLotByKey(db, lotKey)
           lotIdNorm == IF lotRow = {} THEN NullText
                        ELSE (CHOOSE l \in lotRow : TRUE).lot_id_norm
       IN [unmatched |-> FALSE, lotKey |-> lotKey, lotIdNorm |-> lotIdNorm,
           db |-> db, wrote |-> FALSE]
  ELSE IF ~ Truthy(lotIdRaw)
  THEN [unmatched |-> TRUE, lotKey |-> NullKey, lotIdNorm |-> NullText,
        db |-> db, wrote |-> FALSE]
  ELSE LET lotIdNorm == normalizeLotId(lotIdRaw)
           found == FindLot(db, lotIdNorm)
       IN IF ~ Truthy(lotIdNorm) \/ found = {}
          THEN [unmatched |-> TRUE, lotKey |-> NullKey, lotIdNorm |-> NullText,
                db |-> db, wrote |-> FALSE]
          ELSE LET resolvedKey == (CHOOSE l \in found : TRUE).lot_key
               IN [unmatched |-> FALSE, lotKey |-> resolvedKey,
                   lotIdNorm |-> lotIdNorm,
                   db |-> IF source = "PRODUCTION_LOG"
                          THEN UpdateProdLogLot(db, resolvedKey, sourceKey)
                          ELSE UpdateShipLogLot(db, resolvedKey, sourceKey),
                   wrote |-> TRUE]

\* Variant: an absent indicator counted as no defect.
deriveProductionQtyAbsentAsZero(row) ==
  IF row.line_issue_flag = "true" THEN 1 ELSE 0

\* deriveProductionQty: true => 1, false => 0, anything else => 1.
deriveProductionQty(row) ==
  IF row.line_issue_flag = "true" THEN 1
  ELSE IF row.line_issue_flag = "false" THEN 0
  ELSE 1

\* deriveShippingQty.
deriveShippingQty == 1

\* Variant: the production loop without its ledger test.
LedgerConflictIgnored(assignedLineKey, claimedLineKey) == FALSE

\* The ledger test of the production loop: an assignment exists and names
\* another line than the row claims.
LedgerConflict(assignedLineKey, claimedLineKey) ==
  assignedLineKey # NullKey /\ assignedLineKey # claimedLineKey

\* Variant: the ledger write without its guard.
LedgerMissingUnguarded(assignedLineKey) == TRUE

\* The ledger write of the production loop happens when no assignment exists.
LedgerMissing(assignedLineKey) == assignedLineKey = NullKey

\* The quantity test before projection: a quantity <= 0 ends the iteration.
SkipsProjection(qtyImpacted) == qtyImpacted <= 0

\* What one loop iteration leaves behind: the database after each of its
\* write statements, in order, and how the iteration ended.
Flagged(writes, flagType) ==
  [writes |-> writes, outcome |-> "flagged", flagType |-> flagType]

\* One iteration of the loop of processProductionLogs over a selected row.
ProductionRecord(db, row) ==
  LET key == row.production_log_key
  IN
  IF row.run_date = NullDate \/ row.production_line_key = NullKey
  THEN Flagged(<<insertFlag(db, "INCOMPLETE_DATA", "PRODUCTION_LOG",
                            "Missing run_date or production_line_key",
                            "run_date, production_line_key",
                            row.lot_id_raw, NullText, key, NullKey)>>,
               "INCOMPLETE_DATA")
  ELSE
  LET lotResolution == resolveLotKey(db, "PRODUCTION_LOG", key,
                                     row.lot_key, row.lot_id_raw)
      w1 == IF lotResolution.wrote THEN <<lotResolution.db>> ELSE <<>>
      db1 == lotResolution.db
  IN
  IF lotResolution.unmatched
  THEN Flagged(<<insertFlag(db, "UNMATCHED_LOT_ID", "PRODUCTION_LOG",
                            "Missing or invalid Lot ID", "lot_id",
                            row.lot_id_raw, NullText, key, NullKey)>>,
               "UNMATCHED_LOT_ID")
  ELSE IF ~ Truthy(row.primary_issue)
  THEN Flagged(w1 \o <<insertFlag(db1, "INCOMPLETE_DATA", "PRODUCTION_LOG",
                                  "Missing defect type (primary_issue)",
                                  "primary_issue", row.lot_id_raw,
                                  lotResolution.lotIdNorm, key, NullKey)>>,
               "INCOMPLETE_DATA")
  ELSE
  LET issueType == ensureIssueType(db1, "PRODUCTION", row.primary_issue)
      db2 == issueType.db
      w2 == w1 \o <<db2>>
  IN
  IF issueType.key < 0
  THEN Flagged(w1 \o <<insertFlag(db1, "INCOMPLETE_DATA", "PRODUCTION_LOG",
                                  "Invalid defect type label",
                                  "primary_issue", row.lot_id_raw,
                                  lotResolution.lotIdNorm, key, NullKey)>>,
               "INCOMPLETE_DATA")
  ELSE
  LET assignedLineKey == FindLotAssignment(db2, lotResolution.lotKey)
  IN
  IF LedgerConflict(assignedLineKey, row.production_line_key)
  THEN Flagged(w2 \o <<insertFlag(db2, "CONFLICT", "PRODUCTION_LOG",
                                  "Lot ID mapped to multiple production lines",
                                  NullText, row.lot_id_raw,
                                  lotResolution.lotIdNorm, key, NullKey)>>,
               "CONFLICT")
  ELSE
  LET db3 == IF LedgerMissing(assignedLineKey)
             THEN InsertLotAssignment(db2, lotResolution.lotKey,
                                      row.production_line_key)
             ELSE db2
      w3 == IF LedgerMissing(assignedLineKey) THEN w2 \o <<db3>> ELSE w2
      qtyImpacted == deriveProductionQty(row)
  IN
  IF SkipsProjection(qtyImpacted)
  THEN [writes |-> w3, outcome |-> "skipped", flagType |-> "NONE"]
  ELSE
  LET runDateIso == coerceDateToIso(row.run_date)
      runDate == parseIsoDateUTC(runDateIso)
  IN
  IF runDate = NoDate
  THEN Flagged(w3 \o <<insertFlag(db3, "INCOMPLETE_DATA", "PRODUCTION_LOG",
                                  "Invalid run_date", "run_date",
                                  row.lot_id_raw, lotResolution.lotIdNorm,
                                  key, NullKey)>>,
               "INCOMPLETE_DATA")
  ELSE
  [writes |-> w3 \o <<InsertIssueEvent(db3, "PRODUCTION", runDateIso,
                                       toIsoDateUTC(getWeekStartUTC(runDate)),
                                       row.production_line_key,
                                       lotResolution.lotKey, issueType.key,
                                       qtyImpacted, key, NullKey)>>,
   outcome |-> "projected", flagType |-> "NONE"]

\* Variant: a shipment whose lot has no ledger entry counted as unmatched.
NoLedgerEntryFlagUnmatched == "UNMATCHED_LOT_ID"

\* The flag type of a shipping row whose lot has no ledger entry.
NoLedgerEntryFlag == "INCOMPLETE_DATA"

\* One iteration of the loop of processShippingLogs over a selected row.
ShippingRecord(db, row) ==
  LET key == row.shipping_log_key
  IN
  IF row.ship_date = NullDate
  THEN Flagged(<<insertFlag(db, "INCOMPLETE_DATA", "SHIPPING_LOG",
                            "Missing ship_date", "ship_date",
                            row.lot_id_raw, NullText, NullKey, key)>>,
               "INCOMPLETE_DATA")
  ELSE
  LET lotResolution == resolveLotKey(db, "SHIPPING_LOG", key,
                                     row.lot_key, row.lot_id_raw)
      w1 == IF lotResolution.wrote THEN <<lotResolution.db>> ELSE <<>>
      db1 == lotResolution.db
  IN
  IF lotResolution.unmatched
  THEN Flagged(<<insertFlag(db, "UNMATCHED_LOT_ID", "SHIPPING_LOG",
                            "Missing or invalid Lot ID", "lot_id",
                            row.lot_id_raw, NullText, NullKey, key)>>,
               "UNMATCHED_LOT_ID")
  ELSE
  LET assignedLineKey == FindLotAssignment(db1, lotResolution.lotKey)
  IN
  IF assignedLineKey = NullKey
  THEN Flagged(w1 \o <<insertFlag(db1, NoLedgerEntryFlag, "SHIPPING_LOG",
                                  "Missing production line for lot assignment",
                                  "production_line", row.lot_id_raw,
                                  lotResolution.lotIdNorm, NullKey, key)>>,
               NoLedgerEntryFlag)
  ELSE IF ~ Truthy(row.hold_reason)
  THEN Flagged(w1 \o <<insertFlag(db1, "INCOMPLETE_DATA", "SHIPPING_LOG",
                                  "Missing defect type (hold_reason)",
                                  "hold_reason", row.lot_id_raw,
                                  lotResolution.lotIdNorm, NullKey, key)>>,
               "INCOMPLETE_DATA")
  ELSE
  LET issueType == ensureIssueType(db1, "SHIPPING", row.hold_reason)
      db2 == issueType.db
      w2 == w1 \o <<db2>>
  IN
  IF issueType.key < 0
  THEN Flagged(w1 \o <<insertFlag(db1, "INCOMPLETE_DATA", "SHIPPING_LOG",
                                  "Invalid defect type label", "hold_reason",
                                  row.lot_id_raw, lotResolution.lotIdNorm,
                                  NullKey, key)>>,
               "INCOMPLETE_DATA")
  ELSE
  LET qtyImpacted == deriveShippingQty
  IN
  IF SkipsProjection(qtyImpacted)
  THEN [writes |-> w2, outcome |-> "skipped", flagType |-> "NONE"]
  ELSE
  LET shipDateIso == coerceDateToIso(row.ship_date)
      shipDate == parseIsoDateUTC(shipDateIso)
  IN
  IF shipDate = NoDate
  THEN Flagged(w2 \o <<insertFlag(db2, "INCOMPLETE_DATA", "SHIPPING_LOG",
                                  "Invalid ship_date", "ship_date",
                                  row.lot_id_raw, lotResolution.lotIdNorm,
                                  NullKey, key)>>,
               "INCOMPLETE_DATA")
  ELSE
  [writes |-> w2 \o <<InsertIssueEvent(db2, "SHIPPING", shipDateIso,
                                       toIsoDateUTC(getWeekStartUTC(shipDate)),
                                       assignedLineKey, lotResolution.lotKey,
                                       issueType.key, qtyImpacted,
                                       NullKey, key)>>,
   outcome |-> "projected", flagType |-> "NONE"]

\* Variant: every iteration adds to processed, flagged ones to flagged too.
TallyEveryOutcome(counts, outcome) ==
  IF outcome = "flagged"
  THEN [processed |-> counts.processed + 1, flagged |-> counts.flagged + 1]
  ELSE [counts EXCEPT !.processed = @ + 1]

\* The result counters: a flagged iteration adds to flagged, every other
\* iteration (projected, or ended by the quantity test) adds to processed.
Tally(counts, outcome) ==
  IF outcome = "flagged"
  THEN [counts EXCEPT !.flagged = @ + 1]
  ELSE [counts EXCEPT !.processed = @ + 1]

RECURSIVE TallyAll(_, _)
TallyAll(counts, steps) ==
  IF steps = <<>> THEN counts
  ELSE TallyAll(Tally(counts, Head(steps).outcome), Tail(steps))

\* The for-loops: each iteration starts from the writes of the one before.
RECURSIVE ProductionLoop(_, _)
ProductionLoop(db, rows) ==
  IF rows = <<>> THEN <<>>
  ELSE CHOOSE steps \in
         {<<step>> \o ProductionLoop(Last(step.writes), Tail(rows)) :
            step \in {ProductionRecord(db, Head(rows))}} : TRUE

\* Variant: a shipping loop that writes a ledger line for each shipment.
RECURSIVE ShippingLoopAssigning(_, _)
ShippingLoopAssigning(db, rows) ==
  IF rows = <<>> THEN <<>>
  ELSE CHOOSE steps \in
         {<<step>> \o ShippingLoopAssigning(Last(step.writes), Tail(rows)) :
            step \in {[r EXCEPT !.writes =
                         @ \o <<InsertLotAssignment(Last(@),
                                   Head(rows).shipping_log_key,
                                   Head(rows).shipping_log_key)>>] :
                        r \in {ShippingRecord(db, Head(rows))}}} : TRUE

RECURSIVE ShippingLoop(_, _)
ShippingLoop(db, rows) ==
  IF rows = <<>> THEN <<>>
  ELSE CHOOSE steps \in
         {<<step>> \o ShippingLoop(Last(step.writes), Tail(rows)) :
            step \in {ShippingRecord(db, Head(rows))}} : TRUE

\* A storage failure is placed by the iteration and the write statement of it
\* that throws; iteration Len(steps) + 1 is the COMMIT.  NoFailure: none.
NoFailure == [rec |-> 0, stmt |-> 0]

FailurePoints(steps) ==
  UNION {{[rec |-> r, stmt |-> q] : q \in 1..Len(steps[r].writes)} :
           r \in 1..Len(steps)}
    \cup {[rec |-> Len(steps) + 1, stmt |-> 1]}

\* The transaction's view of the database when the failing statement throws.
StateAtFailure(db, steps, failure) ==
  LET before == IF failure.rec = 1 THEN db
                ELSE Last(steps[failure.rec - 1].writes)
  IN IF failure.stmt = 1 THEN before
     ELSE steps[failure.rec].writes[failure.stmt - 1]

\* COMMIT keeps the transaction's writes; ROLLBACK restores the database as
\* it was at BEGIN.
Commit(atBegin, inTransaction) == inTransaction

\* Variant: a ROLLBACK that keeps what the transaction wrote.
RollbackKeepsWrites(atBegin, inTransaction) == inTransaction

Rollback(atBegin, inTransaction) == atBegin

\* What a pass reports and leaves: selected keys, the outcome of each, the
\* returned counters, whether it threw, and the database afterwards.
\* dirty: the failure came after at least one write of the transaction.
NoPass ==
  [ran |-> FALSE, threw |-> FALSE, selected |-> <<>>, outcomes |-> <<>>,
   processed |-> 0, flagged |-> 0, dirty |-> FALSE]

PassResult(db, keys, steps, failure) ==
  IF failure = NoFailure
  THEN LET counts == TallyAll([processed |-> 0, flagged |-> 0], steps)
           final == IF steps = <<>> THEN db ELSE Last(Last(steps).writes)
       IN [report |-> [ran |-> TRUE, threw |-> FALSE, selected |-> keys,
                       outcomes |-> [i \in 1..Len(steps) |-> steps[i].outcome],
                       processed |-> counts.processed,
                       flagged |-> counts.flagged, dirty |-> FALSE],
           db |-> Commit(db, final)]
  ELSE LET partial == StateAtFailure(db, steps, failure)
       IN [report |-> [ran |-> TRUE, threw |-> TRUE, selected |-> keys,
                       outcomes |-> <<>>, processed |-> 0, flagged |-> 0,
                       dirty |-> partial # db],
           db |-> Rollback(db, partial)]

\* The rows a pass selects and the iterations of its loop over them.
ProductionSteps(db, batchSize) ==
  LET rows == UnprocessedProductionLogs(db, batchSize)
  IN [keys |-> [i \in 1..Len(rows) |-> rows[i].production_log_key],
      steps |-> ProductionLoop(db, rows)]

ShippingSteps(db, batchSize) ==
  LET rows == UnprocessedShippingLogs(db, batchSize)
  IN [keys |-> [i \in 1..Len(rows) |-> rows[i].shipping_log_key],
      steps |-> ShippingLoop(db, rows)]

(***************************************************************************)
(* State: the tables, the report of the last call, the number of calls.    *)
(***************************************************************************)
VARIABLES prodLogs, shipLogs, lots, issueTypes, ledger, events, flags,
          last, runs, sessions

tables == <<prodLogs, shipLogs, lots, issueTypes, ledger, events, flags>>
vars == <<prodLogs, shipLogs, lots, issueTypes, ledger, events, flags,
          last, runs, sessions>>

Database ==
  [prod |-> prodLogs, ship |-> shipLogs, lots |-> lots,
   issueTypes |-> issueTypes, ledger |-> ledger, events |-> events,
   flags |-> flags]

Stored(db) ==
  /\ prodLogs' = db.prod
  /\ shipLogs' = db.ship
  /\ lots' = db.lots
  /\ issueTypes' = db.issueTypes
  /\ ledger' = db.ledger
  /\ events' = db.events
  /\ flags' = db.flags

(***************************************************************************)
(* Raw data the pipeline is given (the shapes the service tests seed).     *)
(***************************************************************************)
Lot100 == <<"L", "O", "T", "-", "1", "0", "0">>
Lot100Spaced == <<"l", "o", "t", " ", "1", "0", "0">>
Lot200 == <<"L", "O", "T", "-", "2", "0", "0">>
Lot999 == <<"L", "O", "T", "-", "9", "9", "9">>
Unreadable == <<"?", "?", "?">>
Scratch == <<"S", "c", "r", "a", "t", "c", "h">>
ScratchSpelled == <<" ", " ", "s", "C", "r", "A", "t", "C", "h", " ", " ">>
Dent == <<"D", "e", "n", "t">>
Late == <<"L", "a", "t", "e">>
LineA == 1
LineB == 2

SeedLots ==
  {[lot_key |-> 1, lot_id_norm |-> normalizeLotId(Lot100)],
   [lot_key |-> 2, lot_id_norm |-> normalizeLotId(Lot200)]}

ProductionRow(runDate, lineKey, lotIdRaw, primaryIssue, lineIssueFlag) ==
  [run_date |-> runDate, production_line_key |-> lineKey, lot_key |-> NullKey,
   lot_id_raw |-> lotIdRaw, primary_issue |-> primaryIssue,
   line_issue_flag |-> lineIssueFlag]

ShippingRow(shipDate, lotIdRaw, holdReason) ==
  [ship_date |-> shipDate, lot_key |-> NullKey, lot_id_raw |-> lotIdRaw,
   hold_reason |-> holdReason]

\* Rows the raw tables are filled with: two claims of different lines for one
\* lot, a row with line_issue_flag = false, a lot missing from the lot
\* master, a row without defect label; a shipment of a known lot and one of
\* an unknown lot.
ProductionRows ==
  {ProductionRow(<<2026, 2, 4>>, LineA, Lot100, Scratch, "true"),
   ProductionRow(<<2026, 2, 4>>, LineB, Lot100Spaced, Scratch, "true"),
   ProductionRow(<<2026, 2, 6>>, LineA, Lot100, Dent, "false"),
   ProductionRow(<<2026, 2, 3>>, LineA, Lot999, Scratch, "true"),
   ProductionRow(<<2026, 2, 5>>, LineB, Lot200, NullText, "true")}

ShippingRows ==
  {ShippingRow(<<2026, 2, 2>>, Lot100, Late),
   ShippingRow(<<2026, 2, 3>>, Lot999, Late)}

\* The rows seeded by the service tests (tests/reporting.test.ts).
SeedProductionLogs ==
  <<ProductionRow(<<2026, 2, 2>>, LineA, Lot100, Scratch, "true"),
    ProductionRow(<<2026, 2, 2>>, LineA, NullText, Scratch, "true"),
    ProductionRow(<<2026, 2, 3>>, LineA, Unreadable, Scratch, "true"),
    ProductionRow(<<2026, 2, 4>>, LineB, Lot100, Scratch, "true"),
    ProductionRow(<<2026, 2, 5>>, LineA, Lot200, NullText, "true"),
    ProductionRow(<<2026, 2, 6>>, LineA, Lot200, Dent, "false"),
    ProductionRow(<<2026, 2, 7>>, LineA, Lot200, ScratchSpelled, "true")>>

SeedShippingLogs ==
  <<ShippingRow(<<2026, 2, 2>>, Lot100, Late),
    ShippingRow(<<2026, 2, 3>>, Lot999, Late),
    ShippingRow(<<2026, 2, 3>>, Lot200, NullText)>>

WithProductionKey(row, key) ==
  [production_log_key |-> key, run_date |-> row.run_date,
   production_line_key |-> row.production_line_key, lot_key |-> row.lot_key,
   lot_id_raw |-> row.lot_id_raw, primary_issue |-> row.primary_issue,
   line_issue_flag |-> row.line_issue_flag]

WithShippingKey(row, key) ==
  [shipping_log_key |-> key, ship_date |-> row.ship_date,
   lot_key |-> row.lot_key, lot_id_raw |-> row.lot_id_raw,
   hold_reason |-> row.hold_reason]

\* Database sessions (pooled clients) that run transactions side by side.
Sessions == {"first", "second"}

Idle == [pc |-> "idle", todo |-> <<>>, own |-> {}, results |-> <<>>]

\* No transaction open; the dim_issue_type key sequence untouched.
NoSessions == [client |-> [s \in Sessions |-> Idle], serial |-> 0, begun |-> 0]

NoCall ==
  [op |-> "none", batchSize |-> 0, threw |-> FALSE,
   production |-> NoPass, shipping |-> NoPass]

EmptyReporting ==
  /\ lots = SeedLots
  /\ issueTypes = {}
  /\ ledger = {}
  /\ events = {}
  /\ flags = {}
  /\ last = NoCall
  /\ runs = 0
  /\ sessions = NoSessions

\* Any filling of the raw tables with the rows above, nothing processed yet.
Init ==
  /\ \E choice \in [1..NumProd -> ProductionRows] :
       prodLogs = [k \in 1..NumProd |-> WithProductionKey(choice[k], k)]
  /\ \E choice \in [1..NumShip -> ShippingRows] :
       shipLogs = [k \in 1..NumShip |-> WithShippingKey(choice[k], k)]
  /\ EmptyReporting

\* The seeded test database, nothing processed yet.
InitSeeded ==
  /\ prodLogs = [k \in 1..Len(SeedProductionLogs) |->
                   WithProductionKey(SeedProductionLogs[k], k)]
  /\ shipLogs = [k \in 1..Len(SeedShippingLogs) |->
                   WithShippingKey(SeedShippingLogs[k], k)]
  /\ EmptyReporting

\* Values a raw text column can also hold: the empty string and blanks.
Empty == <<>>
Blank == <<" ", " ">>
Feb4 == <<2026, 2, 4>>

\* Single records covering every way a production row can be incomplete,
\* unmatched, conflicting, of zero quantity or clean, alone and combined.
ProductionRecords ==
  {ProductionRow(NullDate, LineA, Lot100, Scratch, "true"),
   ProductionRow(Feb4, NullKey, Lot100, Scratch, "true"),
   ProductionRow(NullDate, LineA, Lot999, Scratch, "true"),
   ProductionRow(Feb4, LineA, NullText, Scratch, "true"),
   ProductionRow(Feb4, LineA, Blank, Scratch, "true"),
   ProductionRow(Feb4, LineA, Unreadable, Scratch, "true"),
   ProductionRow(Feb4, LineA, Lot999, Scratch, "true"),
   ProductionRow(Feb4, LineA, Lot999, NullText, "true"),
   ProductionRow(Feb4, LineA, Lot100, NullText, "true"),
   ProductionRow(Feb4, LineA, Lot100, Empty, "true"),
   ProductionRow(Feb4, LineA, Lot100, Blank, "true"),
   ProductionRow(Feb4, LineB, Lot100, Blank, "true"),
   ProductionRow(Feb4, LineB, Lot100, Scratch, "true"),
   ProductionRow(Feb4, LineB, Lot100, NullText, "true"),
   ProductionRow(Feb4, LineA, Lot100, Dent, "false"),
   ProductionRow(Feb4, LineA, Lot100, ScratchSpelled, "null"),
   ProductionRow(Feb4, LineB, Lot200, Scratch, "true")}

ShippingRecords ==
  {ShippingRow(NullDate, Lot100, Late),
   ShippingRow(NullDate, Lot999, Late),
   ShippingRow(Feb4, Lot999, Late),
   ShippingRow(Feb4, NullText, Late),
   ShippingRow(Feb4, Blank, Late),
   ShippingRow(Feb4, Lot200, Late),
   ShippingRow(Feb4, Lot200, NullText),
   ShippingRow(Feb4, Lot100, NullText),
   ShippingRow(Feb4, Lot100, Blank),
   ShippingRow(Feb4, Lot100, Late),
   ShippingRow(Feb4, Lot100, Scratch),
   ShippingRow(Feb4, Lot100, ScratchSpelled)}

\* A clean production record for lot LOT-100 on line A, followed by any one
\* production record and any one shipping record; nothing processed yet.
InitRecords ==
  /\ \E second \in ProductionRecords :
       prodLogs = <<WithProductionKey(
                      ProductionRow(Feb4, LineA, Lot100, Scratch, "true"), 1),
                    WithProductionKey(second, 2)>>
  /\ \E only \in ShippingRecords :
       shipLogs = <<WithShippingKey(only, 1)>>
  /\ EmptyReporting

(***************************************************************************)
(* Entry points.                                                           *)
(***************************************************************************)
\* Calls during which the storage layer answers every statement.
Reliable == "reliable"

\* Calls during which any one statement, or the COMMIT, may throw.
Unreliable == "unreliable"

\* Where a call may fail: nowhere, or at any one statement or the COMMIT.
Faults(storage, steps) ==
  IF storage = Reliable THEN {NoFailure}
  ELSE {NoFailure} \cup FailurePoints(steps)

processProductionLogs(batchSize, storage) ==
  /\ runs < MaxRuns
  /\ \E run \in {ProductionSteps(Database, batchSize)} :
       \E failure \in Faults(storage, run.steps) :
         \E pass \in {PassResult(Database, run.keys, run.steps, failure)} :
           /\ Stored(pass.db)
           /\ last' = [op |-> "production", batchSize |-> batchSize,
                       threw |-> pass.report.threw,
                       production |-> pass.report, shipping |-> NoPass]
  /\ runs' = runs + 1
  /\ UNCHANGED sessions

processShippingLogs(batchSize, storage) ==
  /\ runs < MaxRuns
  /\ \E run \in {ShippingSteps(Database, batchSize)} :
       \E failure \in Faults(storage, run.steps) :
         \E pass \in {PassResult(Database, run.keys, run.steps, failure)} :
           /\ Stored(pass.db)
           /\ last' = [op |-> "shipping", batchSize |-> batchSize,
                       threw |-> pass.report.threw,
                       production |-> NoPass, shipping |-> pass.report]
  /\ runs' = runs + 1
  /\ UNCHANGED sessions

\* Variant: processAllLogs going on after a failed production pass.
AbortsCallNever(report) == FALSE

\* processAllLogs awaits processProductionLogs without a catch: an error
\* thrown by the production pass ends the call.
AbortsCall(report) == report.threw

\* Variant: the shipping pass working on the database as the call found it.
ShippingPassSeesCallStart(atCall, afterProduction) == atCall

\* What the shipping pass of processAllLogs starts from: the production pass
\* is awaited first, so the database as that pass committed it.
ShippingPassSees(atCall, afterProduction) == afterProduction

\* processAllLogs: the production pass, then (unless it threw) the shipping
\* pass on what the production pass committed.
processAllLogs(batchSize, storage) ==
  /\ runs < MaxRuns
  /\ \E run \in {ProductionSteps(Database, batchSize)} :
       \E failure \in Faults(storage, run.steps) :
         \E production \in
              {PassResult(Database, run.keys, run.steps, failure)} :
           IF AbortsCall(production.report)
           THEN /\ Stored(production.db)
                /\ last' = [op |-> "all", batchSize |-> batchSize,
                            threw |-> TRUE,
                            production |-> production.report,
                            shipping |-> NoPass]
           ELSE \E seen \in {ShippingPassSees(Database, production.db)} :
                \E run2 \in {ShippingSteps(seen, batchSize)} :
                  \E failure2 \in Faults(storage, run2.steps) :
                    \E shipping \in {PassResult(seen, run2.keys,
                                                run2.steps, failure2)} :
                      /\ Stored(shipping.db)
                      /\ last' = [op |-> "all", batchSize |-> batchSize,
                                  threw |-> shipping.report.threw,
                                  production |-> production.report,
                                  shipping |-> shipping.report]
  /\ runs' = runs + 1
  /\ UNCHANGED sessions

(***************************************************************************)
(* ensureIssueType from transactions that overlap.  Each session runs the  *)
(* ensureIssueType calls of one batch, one statement at a time, inside its *)
(* own transaction.  Rows a session has inserted are visible to it alone   *)
(* until it commits.  INSERT ... ON CONFLICT (source, issue_label_norm)    *)
(* on a key another open transaction has inserted waits for that           *)
(* transaction to end, then takes the conflict branch or inserts.          *)
(***************************************************************************)
IssueCall(source, label) == [source |-> source, label |-> label]

\* The ensureIssueType calls of a batch, in record order.
LabelBatches ==
  {<<IssueCall("PRODUCTION", Scratch), IssueCall("SHIPPING", Scratch)>>,
   <<IssueCall("PRODUCTION", ScratchSpelled), IssueCall("PRODUCTION", Dent)>>,
   <<IssueCall("PRODUCTION", Dent), IssueCall("PRODUCTION", Scratch)>>,
   <<IssueCall("SHIPPING", Scratch), IssueCall("SHIPPING", Late)>>,
   <<IssueCall("SHIPPING", Late), IssueCall("SHIPPING", ScratchSpelled)>>,
   <<IssueCall("PRODUCTION", Blank)>>}

\* pool.connect() and BEGIN.
BeginSession(s) ==
  /\ sessions.client[s].pc = "idle"
  /\ sessions.begun < MaxRuns
  /\ \E batch \in LabelBatches :
       sessions' = [sessions EXCEPT
                      !.client[s] = [pc |-> "open", todo |-> batch,
                                     own |-> {}, results |-> <<>>],
                      !.begun = @ + 1]
  /\ UNCHANGED <<tables, last, runs>>

\* Another open transaction holds an uncommitted row with this key.
KeyHeldElsewhere(s, source, normalized) ==
  \E t \in Sessions \ {s} : \E row \in sessions.client[t].own :
    row.source = source /\ row.issue_label_norm = normalized

\* The session's next ensureIssueType call, on what the session can see:
\* the committed rows and its own.  An inserted row takes its key from the
\* table's sequence.
EnsureNext(s) ==
  /\ sessions.client[s].pc = "open"
  /\ sessions.client[s].todo # <<>>
  /\ \E call \in {Head(sessions.client[s].todo)} :
     \E visible \in {[Database EXCEPT
                        !.issueTypes = @ \cup sessions.client[s].own]} :
     \E ensured \in {ensureIssueType(visible, call.source, call.label)} :
       /\ ~ KeyHeldElsewhere(s, call.source, normalizeLabel(call.label))
       /\ IF ensured.db.issueTypes = visible.issueTypes
          THEN sessions' = [sessions EXCEPT
                 !.client[s].todo = Tail(@),
                 !.client[s].results = Append(@, [source |-> call.source,
                     issue_label_norm |-> normalizeLabel(call.label),
                     key |-> ensured.key])]
          ELSE sessions' = [sessions EXCEPT
                 !.client[s].todo = Tail(@),
                 !.client[s].own = @ \cup
                   {[row EXCEPT !.issue_type_key = sessions.serial + 1] :
                      row \in ensured.db.issueTypes \ visible.issueTypes},
                 !.client[s].results = Append(@, [source |-> call.source,
                     issue_label_norm |-> normalizeLabel(call.label),
                     key |-> sessions.serial + 1]),
                 !.serial = @ + 1]
  /\ UNCHANGED <<tables, last, runs>>

\* COMMIT: the session's rows become visible to every session.
CommitSession(s) ==
  /\ sessions.client[s].pc = "open"
  /\ sessions.client[s].todo = <<>>
  /\ issueTypes' = issueTypes \cup sessions.client[s].own
  /\ sessions' = [sessions EXCEPT !.client[s] = Idle]
  /\ UNCHANGED <<prodLogs, shipLogs, lots, ledger, events, flags, last, runs>>

\* ROLLBACK after a failure (a deadlock among waiting sessions included).
RollbackSession(s) ==
  /\ sessions.client[s].pc = "open"
  /\ sessions' = [sessions EXCEPT !.client[s] = Idle]
  /\ UNCHANGED <<tables, last, runs>>

NextSessions ==
  \E s \in Sessions :
    \/ BeginSession(s)
    \/ EnsureNext(s)
    \/ CommitSession(s)
    \/ RollbackSession(s)

\* No raw rows; only the sessions act.
InitSessions ==
  /\ prodLogs = <<>>
  /\ shipLogs = <<>>
  /\ EmptyReporting

SpecSessions == InitSessions /\ [][NextSessions]_vars

(***************************************************************************)
(* Reporting (getWeeklySummary over WEEKLY_SUMMARY_SQL).  The tables are   *)
(* filled as src/db/seed.sql fills them.                                   *)
(***************************************************************************)
Leak == <<"L", "e", "a", "k">>
LabelMismatch ==
  <<"L", "a", "b", "e", "l", " ", "m", "i", "s", "m", "a", "t", "c", "h">>
DamagedBox == <<"D", "a", "m", "a", "g", "e", "d", " ", "b", "o", "x">>
Line1 == <<"L", "i", "n", "e", " ", "1">>
Line3 == <<"L", "i", "n", "e", " ", "3">>

\* ops.dim_production_line.
ProductionLines ==
  {[production_line_key |-> 1, line_name |-> Line1],
   [production_line_key |-> 2, line_name |-> Line3]}

\* ops.dim_lot.
ReportLots ==
  {[lot_key |-> 1,
    lot_id_norm |-> normalizeLotId(<<"L", "O", "T", " ", "1", "0", "0", "1">>)],
   [lot_key |-> 2,
    lot_id_norm |->
      normalizeLotId(<<" ", "l", "o", "t", "-", "1", "0", "0", "2", " ">>)],
   [lot_key |-> 3,
    lot_id_norm |-> normalizeLotId(<<"L", "0", "T", "_", "2", "0", "0", "1">>)],
   [lot_key |-> 4,
    lot_id_norm |->
      normalizeLotId(<<"L", "O", "T", "_", "_", "2", "0", "0", "2">>)]}

\* ops.lot_line_assignment.
ReportLedger ==
  {[lot_line_key |-> 1, lot_key |-> 1, production_line_key |-> 1],
   [lot_line_key |-> 2, lot_key |-> 2, production_line_key |-> 1],
   [lot_line_key |-> 3, lot_key |-> 3, production_line_key |-> 2],
   [lot_line_key |-> 4, lot_key |-> 4, production_line_key |-> 2]}

IssueTypeRow(key, source, label) ==
  [issue_type_key |-> key, source |-> source, issue_label |-> label,
   issue_label_norm |-> normalizeLabel(label)]

\* ops.dim_issue_type, and a shipping type spelled like a production one.
ReportIssueTypes ==
  {IssueTypeRow(1, "PRODUCTION", Scratch),
   IssueTypeRow(2, "PRODUCTION", Leak),
   IssueTypeRow(3, "SHIPPING", LabelMismatch),
   IssueTypeRow(4, "SHIPPING", DamagedBox),
   IssueTypeRow(5, "SHIPPING", Scratch)}

\* date_trunc('week', d)::date: the Monday on or before d.
DateTruncWeek(date) == toIsoDateUTC(getWeekStartUTC(parseIsoDateUTC(date)))

EventRow(key, source, date, lineKey, lotKey, typeKey, qty, prodKey, shipKey) ==
  [issue_event_key |-> key, event_source |-> source, event_date |-> date,
   week_start_date |-> DateTruncWeek(date), production_line_key |-> lineKey,
   lot_key |-> lotKey, issue_type_key |-> typeKey, qty_impacted |-> qty,
   production_log_key |-> prodKey, shipping_log_key |-> shipKey]

\* ops.fact_issue_event of the seed, with two more events in the first cell:
\* one of quantity 0, and a shipping event under the label 'Scratch'.
ReportEvents ==
  {EventRow(3001, "PRODUCTION", <<2026, 1, 20>>, 1, 2, 1, 5, 1001, NullKey),
   EventRow(3002, "PRODUCTION", <<2026, 1, 27>>, 1, 2, 2, 2, 1002, NullKey),
   EventRow(3003, "PRODUCTION", <<2026, 2, 3>>, 1, 2, 2, 0, 1003, NullKey),
   EventRow(3004, "PRODUCTION", <<2026, 2, 10>>, 2, 3, 1, 7, 1004, NullKey),
   EventRow(3101, "SHIPPING", <<2026, 1, 22>>, 1, 2, 3, 3, NullKey, 2001),
   EventRow(3102, "SHIPPING", <<2026, 2, 5>>, 2, 3, 4, 1, NullKey, 2002),
   EventRow(3005, "PRODUCTION", <<2026, 1, 21>>, 1, 2, 1, 0, 1005, NullKey),
   EventRow(3103, "SHIPPING", <<2026, 1, 23>>, 1, 2, 5, 2, NullKey, 2003)}

\* Week arguments a caller passes: the Mondays of the seeded weeks.
WeekArguments ==
  {<<2026, 1, 19>>, <<2026, 1, 26>>, <<2026, 2, 2>>, <<2026, 2, 9>>}

\* Comparison of two DATE values.
DateLessEq(a, b) == DaysFromCivil(a[1], a[2], a[3]) <= DaysFromCivil(b[1], b[2], b[3])

\* Text order of the database (ORDER BY ... ASC): character by character, a
\* prefix before its extensions.
Collation ==
  <<" ", "-", "0", "1", "2", "3", "4", "5", "6", "7", "8", "9",
    "A", "B", "C", "D", "E", "F", "G", "H", "I", "J", "K", "L", "M",
    "N", "O", "P", "Q", "R", "S", "T", "U", "V", "W", "X", "Y", "Z",
    "a", "b", "c", "d", "e", "f", "g", "h", "i", "j", "k", "l", "m",
    "n", "o", "p", "q", "r", "s", "t", "u", "v", "w", "x", "y", "z">>

CharRank(c) ==
  IF \E i \in 1..Len(Collation) : Collation[i] = c
  THEN CHOOSE i \in 1..Len(Collation) : Collation[i] = c
  ELSE 0

RECURSIVE TextLess(_, _)
TextLess(a, b) ==
  IF b = <<>> THEN FALSE
  ELSE IF a = <<>> THEN TRUE
  ELSE IF Head(a) = Head(b) THEN TextLess(Tail(a), Tail(b))
  ELSE CharRank(Head(a)) < CharRank(Head(b))

\* Variant: COUNT(*) in place of SUM(ie.qty_impacted).
SumQtyCountingRows(rows) == Cardinality(rows)

RECURSIVE SumQty(_)
SumQty(rows) ==
  IF rows = {} THEN 0
  ELSE LET r == CHOOSE x \in rows : TRUE
       IN r.qty_impacted + SumQty(rows \ {r})

\* Variant: the WHERE clause without its quantity condition.
CountedInSummaryAnyQuantity(ie) == TRUE

\* WEEKLY_SUMMARY_SQL, "AND ie.qty_impacted > 0".
CountedInSummary(ie) == ie.qty_impacted > 0

\* WEEKLY_SUMMARY_SQL, FROM .. JOIN .. WHERE: the joined rows kept, each an
\* event with its line name and issue label.
SummaryJoin(db, startWeek, endWeek) ==
  {[ie |-> ie, line_name |-> pl.line_name, issue_label |-> it.issue_label] :
     <<ie, pl, it>> \in
       {j \in db.events \X ProductionLines \X db.issueTypes :
          /\ j[2].production_line_key = j[1].production_line_key
          /\ j[3].issue_type_key = j[1].issue_type_key
          /\ DateLessEq(startWeek, j[1].week_start_date)
          /\ DateLessEq(j[1].week_start_date, endWeek)
          /\ CountedInSummary(j[1])}}

\* WEEKLY_SUMMARY_SQL, SELECT .. GROUP BY: one row per group, with the sum.
SummaryGroups(joined) ==
  {[week_start_date |-> j.ie.week_start_date,
    production_line |-> j.line_name,
    defect_type |-> j.issue_label,
    total_defects |->
      SumQty({k.ie : k \in {k \in joined :
                              /\ k.ie.week_start_date = j.ie.week_start_date
                              /\ k.line_name = j.line_name
                              /\ k.issue_label = j.issue_label}})] :
     j \in joined}

\* WEEKLY_SUMMARY_SQL, ORDER BY: week ascending, line name ascending, total
\* descending.
SummaryBefore(a, b) ==
  \/ a.week_start_date # b.week_start_date
       /\ DateLessEq(a.week_start_date, b.week_start_date)
  \/ a.week_start_date = b.week_start_date
       /\ TextLess(a.production_line, b.production_line)
  \/ a.week_start_date = b.week_start_date
       /\ a.production_line = b.production_line
       /\ a.total_defects > b.total_defects

\* Every order the sort may return: rows equal on all three sort keys come
\* in either order.
RECURSIVE SummaryOrders(_)
SummaryOrders(rows) ==
  IF rows = {} THEN {<<>>}
  ELSE UNION {{<<r>> \o rest : rest \in SummaryOrders(rows \ {r})} :
                r \in {x \in rows : \A y \in rows : ~SummaryBefore(y, x)}}

\* The rows mapped by getWeeklySummary: the week as YYYY-MM-DD, the total as
\* a number.
SummaryRow(row) ==
  [week_start_date |-> coerceDateToIso(row.week_start_date),
   production_line |-> row.production_line,
   defect_type |-> row.defect_type,
   total_defects |-> row.total_defects]

\* getWeeklySummary(pool, startWeek, endWeek): a read; the rows returned are
\* kept in last.
getWeeklySummary(startWeek, endWeek) ==
  /\ \E ordered \in
        SummaryOrders(SummaryGroups(SummaryJoin(Database, startWeek, endWeek))) :
       last' = [op |-> "getWeeklySummary", batchSize |-> 0, threw |-> FALSE,
                production |-> NoPass, shipping |-> NoPass,
                startWeek |-> startWeek, endWeek |-> endWeek,
                rows |-> [i \in 1..Len(ordered) |-> SummaryRow(ordered[i])]]
  /\ UNCHANGED <<tables, runs, sessions>>

\* LEFT JOIN of a raw log table on a key: the row with that key, or a row of
\* NULLs.
NullProductionLog == [primary_issue |-> NullText]
NullShippingLog == [hold_reason |-> NullText]

LeftJoinProductionLog(db, key) ==
  IF key \in DOMAIN db.prod
  THEN [primary_issue |-> db.prod[key].primary_issue]
  ELSE NullProductionLog

LeftJoinShippingLog(db, key) ==
  IF key \in DOMAIN db.ship
  THEN [hold_reason |-> db.ship[key].hold_reason]
  ELSE NullShippingLog

\* Variant: the cell filter restricted to events that count in the summary.
InDetailCellPositiveOnly(j, weekStart, productionLine, defectType) ==
  /\ j[1].week_start_date = weekStart
  /\ j[2].line_name = productionLine
  /\ j[3].issue_label = defectType
  /\ j[1].qty_impacted > 0

\* WEEKLY_DETAILS_SQL, WHERE: week, line name and issue label equal the
\* arguments.
InDetailCell(j, weekStart, productionLine, defectType) ==
  /\ j[1].week_start_date = weekStart
  /\ j[2].line_name = productionLine
  /\ j[3].issue_label = defectType

\* WEEKLY_DETAILS_SQL, FROM .. JOIN .. WHERE: an event with its line, issue
\* type and lot rows.
DetailsJoin(db, weekStart, productionLine, defectType) ==
  {[ie |-> j[1], line_name |-> j[2].line_name,
    issue_label |-> j[3].issue_label, lot_id_norm |-> j[4].lot_id_norm] :
     j \in {j \in db.events \X ProductionLines \X db.issueTypes \X db.lots :
              /\ j[2].production_line_key = j[1].production_line_key
              /\ j[3].issue_type_key = j[1].issue_type_key
              /\ j[4].lot_key = j[1].lot_key
              /\ InDetailCell(j, weekStart, productionLine, defectType)}}

\* WEEKLY_DETAILS_SQL, ORDER BY ie.event_date, l.lot_id_norm.
DetailBefore(a, b) ==
  \/ a.ie.event_date # b.ie.event_date
       /\ DateLessEq(a.ie.event_date, b.ie.event_date)
  \/ a.ie.event_date = b.ie.event_date
       /\ TextLess(a.lot_id_norm, b.lot_id_norm)

RECURSIVE DetailOrders(_)
DetailOrders(rows) ==
  IF rows = {} THEN {<<>>}
  ELSE UNION {{<<r>> \o rest : rest \in DetailOrders(rows \ {r})} :
                r \in {x \in rows : \A y \in rows : ~DetailBefore(y, x)}}

\* The columns selected, as getWeeklyDetails maps them (of the raw log
\* columns, the ones the ingestion reads).
DetailRow(db, j) ==
  [week_start_date |-> j.ie.week_start_date,
   event_source |-> j.ie.event_source,
   event_date |-> j.ie.event_date,
   line_name |-> j.line_name,
   defect_type |-> j.issue_label,
   qty_impacted |-> j.ie.qty_impacted,
   lot_id_norm |-> j.lot_id_norm,
   production_log_key |-> j.ie.production_log_key,
   shipping_log_key |-> j.ie.shipping_log_key,
   primary_issue |->
     LeftJoinProductionLog(db, j.ie.production_log_key).primary_issue,
   hold_reason |-> LeftJoinShippingLog(db, j.ie.shipping_log_key).hold_reason]

\* Line names and labels a caller asks for: the stored ones, and a label
\* under another spelling.
LineArguments == {Line1, Line3}
LabelArguments == {Scratch, Leak, LabelMismatch, DamagedBox, ScratchSpelled}

\* getWeeklyDetails(pool, weekStart, productionLine, defectType): a read; the
\* rows returned are kept in last.
getWeeklyDetails(weekStart, productionLine, defectType) ==
  /\ \E ordered \in
        DetailOrders(DetailsJoin(Database, weekStart, productionLine, defectType)) :
       last' = [op |-> "getWeeklyDetails", batchSize |-> 0, threw |-> FALSE,
                production |-> NoPass, shipping |-> NoPass,
                weekStart |-> weekStart, productionLine |-> productionLine,
                defectType |-> defectType,
                rows |-> [i \in 1..Len(ordered) |->
                            DetailRow(Database, ordered[i])]]
  /\ UNCHANGED <<tables, runs, sessions>>

NextReports ==
  \/ \E startWeek \in WeekArguments, endWeek \in WeekArguments :
       getWeeklySummary(startWeek, endWeek)
  \/ \E weekStart \in WeekArguments, productionLine \in LineArguments, defectType \in LabelArguments :
       getWeeklyDetails(weekStart, productionLine, defectType)

\* The seeded dimensions, and any part of the seeded events.
InitReports ==
  /\ prodLogs = <<>>
  /\ shipLogs = <<>>
  /\ lots = ReportLots
  /\ issueTypes = ReportIssueTypes
  /\ ledger = ReportLedger
  /\ events \in SUBSET ReportEvents
  /\ flags = {}
  /\ last = NoCall
  /\ runs = 0
  /\ sessions = NoSessions

SpecReports == InitReports /\ [][NextReports]_vars

(***************************************************************************)
(* processProductionLogs from two clients at once.  Each pass runs inside  *)
(* its own transaction and handles one record: the statements up to the    *)
(* ledger read, the ledger read (FIND_LOT_ASSIGNMENT_SQL), the ledger      *)
(* write (INSERT_LOT_ASSIGNMENT_SQL), the event insert, COMMIT.  A         *)
(* statement sees the committed rows and the pass's own.  The ledger has   *)
(* a uniqueness constraint on the lot: an insert for a lot another open    *)
(* transaction has inserted waits for that transaction to end, and an      *)
(* insert for a lot that has a committed row fails.                        *)
(***************************************************************************)
\* The lot-to-line assignment table's uniqueness constraint on lot_key.
LedgerUniqueOnLot == TRUE

\* Rows the two passes handle: two claims for one lot under two spellings,
\* a claim of the first line again, and a claim for another lot.
RaceRows ==
  {ProductionRow(Feb4, LineA, Lot100, Scratch, "true"),
   ProductionRow(Feb4, LineB, Lot100Spaced, Scratch, "true"),
   ProductionRow(Feb4, LineA, Lot100Spaced, Scratch, "true"),
   ProductionRow(Feb4, LineB, Lot200, Scratch, "true")}

\* The record each pass handles.
RecordOf(s) == IF s = "first" THEN 1 ELSE 2

NoWrites == [ledger |-> {}, flags |-> {}, events |-> {}]

IdlePass ==
  [pc |-> "idle", key |-> NullKey, lotKey |-> NullKey, lotIdNorm |-> NullText,
   issueTypeKey |-> NullKey, own |-> NoWrites]

NoPasses ==
  [client |-> [s \in Sessions |-> IdlePass], serial |-> 0, begun |-> 0,
   outcome |-> [s \in Sessions |-> "none"],
   assigned |-> [s \in Sessions |-> NullKey]]

\* What a statement of pass s sees.
VisibleTo(s) ==
  [Database EXCEPT !.ledger = @ \cup sessions.client[s].own.ledger,
                   !.flags = @ \cup sessions.client[s].own.flags,
                   !.events = @ \cup sessions.client[s].own.events]

\* pool.connect(), BEGIN, the selection, and the iteration of the record up
\* to the ledger read: the lot is resolved and the issue type ensured (both
\* stored already, so neither writes a shared row).
BeginPass(s) ==
  /\ sessions.client[s].pc = "idle"
  /\ sessions.begun < MaxRuns
  /\ \A ie \in events : ie.production_log_key # RecordOf(s)
  /\ \E row \in {prodLogs[RecordOf(s)]} :
     \E lotResolution \in {resolveLotKey(Database, "PRODUCTION_LOG",
                             row.production_log_key, row.lot_key,
                             row.lot_id_raw)} :
     \E issueType \in {ensureIssueType(Database, "PRODUCTION",
                                       row.primary_issue)} :
       /\ ~ lotResolution.unmatched
       /\ issueType.db = Database
       /\ sessions' = [sessions EXCEPT
            !.client[s] = [pc |-> "find", key |-> row.production_log_key,
                           lotKey |-> lotResolution.lotKey,
                           lotIdNorm |-> lotResolution.lotIdNorm,
                           issueTypeKey |-> issueType.key, own |-> NoWrites],
            !.begun = @ + 1,
            !.outcome[s] = "none",
            !.assigned[s] = NullKey]
  /\ UNCHANGED <<tables, last, runs>>

\* FIND_LOT_ASSIGNMENT_SQL and the branch on its result: a CONFLICT flag, the
\* ledger write, or straight to the event.
FindAssignment(s) ==
  /\ sessions.client[s].pc = "find"
  /\ \E pass \in {sessions.client[s]} :
     \E row \in {prodLogs[pass.key]} :
     \E assignedLineKey \in {FindLotAssignment(VisibleTo(s), pass.lotKey)} :
       IF LedgerConflict(assignedLineKey, row.production_line_key)
       THEN sessions' = [sessions EXCEPT
              !.client[s].pc = "flagged",
              !.assigned[s] = assignedLineKey,
              !.serial = @ + 1,
              !.client[s].own.flags =
                 {[f EXCEPT !.flag_key = sessions.serial + 1] :
                    f \in insertFlag(VisibleTo(s), "CONFLICT",
                            "PRODUCTION_LOG",
                            "Lot ID mapped to multiple production lines",
                            NullText, row.lot_id_raw, pass.lotIdNorm,
                            pass.key, NullKey).flags \ VisibleTo(s).flags}]
       ELSE sessions' = [sessions EXCEPT
              !.assigned[s] = assignedLineKey,
              !.client[s].pc = IF LedgerMissing(assignedLineKey)
                               THEN "insert" ELSE "event"]
  /\ UNCHANGED <<tables, last, runs>>

\* Another open transaction holds an uncommitted ledger row of the lot.
LotHeldElsewhere(s, lotKey) ==
  \E t \in Sessions \ {s} : \E a \in sessions.client[t].own.ledger :
    a.lot_key = lotKey

\* INSERT_LOT_ASSIGNMENT_SQL.  On a uniqueness violation the statement
\* throws: the catch block rolls the transaction back and rethrows.
InsertAssignment(s) ==
  /\ sessions.client[s].pc = "insert"
  /\ \E pass \in {sessions.client[s]} :
     \E row \in {prodLogs[pass.key]} :
       /\ LedgerUniqueOnLot => ~ LotHeldElsewhere(s, pass.lotKey)
       /\ IF LedgerUniqueOnLot /\ \E a \in ledger : a.lot_key = pass.lotKey
          THEN sessions' = [sessions EXCEPT !.client[s] = IdlePass,
                                            !.outcome[s] = "threw"]
          ELSE sessions' = [sessions EXCEPT
                 !.client[s].pc = "event",
                 !.serial = @ + 1,
                 !.client[s].own.ledger =
                    {[a EXCEPT !.lot_line_key = sessions.serial + 1] :
                       a \in InsertLotAssignment(VisibleTo(s), pass.lotKey,
                               row.production_line_key).ledger
                             \ VisibleTo(s).ledger}]
  /\ UNCHANGED <<tables, last, runs>>

\* INSERT_ISSUE_EVENT_SQL for the record (quantity 1, valid date).
InsertEvent(s) ==
  /\ sessions.client[s].pc = "event"
  /\ \E pass \in {sessions.client[s]} :
     \E row \in {prodLogs[pass.key]} :
     \E runDateIso \in {coerceDateToIso(row.run_date)} :
       sessions' = [sessions EXCEPT
          !.client[s].pc = "projected",
          !.serial = @ + 1,
          !.client[s].own.events =
             {[ie EXCEPT !.issue_event_key = sessions.serial + 1] :
                ie \in InsertIssueEvent(VisibleTo(s), "PRODUCTION", runDateIso,
                         toIsoDateUTC(getWeekStartUTC(parseIsoDateUTC(runDateIso))),
                         row.production_line_key, pass.lotKey,
                         pass.issueTypeKey, deriveProductionQty(row),
                         pass.key, NullKey).events \ VisibleTo(s).events}]
  /\ UNCHANGED <<tables, last, runs>>

\* COMMIT: the rows of the pass, and the lot key written back on its record,
\* become visible to every client.
CommitPass(s) ==
  /\ sessions.client[s].pc \in {"flagged", "projected"}
  /\ \E pass \in {sessions.client[s]} :
       /\ prodLogs' = UpdateProdLogLot(Database, pass.lotKey, pass.key).prod
       /\ ledger' = ledger \cup pass.own.ledger
       /\ flags' = flags \cup pass.own.flags
       /\ events' = events \cup pass.own.events
       /\ sessions' = [sessions EXCEPT !.client[s] = IdlePass,
                                       !.outcome[s] = pass.pc]
  /\ UNCHANGED <<shipLogs, lots, issueTypes, last, runs>>

NextLedgerRace ==
  \E s \in Sessions :
    \/ BeginPass(s)
    \/ FindAssignment(s)
    \/ InsertAssignment(s)
    \/ InsertEvent(s)
    \/ CommitPass(s)

\* Two raw production rows, the lots and the issue type stored, no ledger
\* row yet.
InitLedgerRace ==
  /\ \E choice \in [1..2 -> RaceRows] :
       prodLogs = [k \in 1..2 |-> WithProductionKey(choice[k], k)]
  /\ shipLogs = <<>>
  /\ lots = SeedLots
  /\ issueTypes = {IssueTypeRow(1, "PRODUCTION", Scratch)}
  /\ ledger = {}
  /\ events = {}
  /\ flags = {}
  /\ last = NoCall
  /\ runs = 0
  /\ sessions = NoPasses

SpecLedgerRace == InitLedgerRace /\ [][NextLedgerRace]_vars

Next ==
  \E batchSize \in BatchSizes :
    \/ processProductionLogs(batchSize, Reliable)
    \/ processShippingLogs(batchSize, Reliable)
    \/ processAllLogs(batchSize, Reliable)

Spec == Init /\ [][Next]_vars

NextFaulty ==
  \E batchSize \in BatchSizes :
    \/ processProductionLogs(batchSize, Unreliable)
    \/ processShippingLogs(batchSize, Unreliable)
    \/ processAllLogs(batchSize, Unreliable)

SpecFaulty == InitSeeded /\ [][NextFaulty]_vars

SpecRecords == InitRecords /\ [][Next]_vars

(***************************************************************************)
(* The statements of one pass, one at a time: pool.connect(), BEGIN, the   *)
(* selection, the statements of the loop, COMMIT; the catch block with its *)
(* ROLLBACK; the finally block with client.release().  Any of the awaited  *)
(* calls may throw.  The tables change when COMMIT succeeds.               *)
(***************************************************************************)
\* The number of write statements the loop of a pass issues (a read that
\* throws leaves the try block the way the write after it does).
RECURSIVE LoopStatements(_)
LoopStatements(steps) ==
  IF steps = <<>> THEN 0
  ELSE Len(Head(steps).writes) + LoopStatements(Tail(steps))

PassOf(op, batchSize) ==
  IF op = "production" THEN ProductionSteps(Database, batchSize)
  ELSE ShippingSteps(Database, batchSize)

\* No call running: no client held, no transaction begun.
NoClient ==
  [pc |-> "idle", op |-> "none", batchSize |-> 0, left |-> 0,
   client |-> "none", tx |-> "none", rollbacks |-> 0, releases |-> 0,
   pending |-> "none", ended |-> "none"]

\* processProductionLogs or processShippingLogs is called.
CallPass(op, batchSize) ==
  /\ sessions.pc = "idle"
  /\ runs < MaxRuns
  /\ sessions' = [NoClient EXCEPT !.pc = "connect", !.op = op,
                                  !.batchSize = batchSize,
                                  !.ended = "running"]
  /\ runs' = runs + 1
  /\ UNCHANGED <<tables, last>>

\* const client = await pool.connect(), before the try block: when it throws
\* the call throws with no client to release.
ConnectClient ==
  /\ sessions.pc = "connect"
  /\ \E ok \in BOOLEAN :
       sessions' = IF ok
                   THEN [sessions EXCEPT !.pc = "begin", !.client = "held"]
                   ELSE [sessions EXCEPT !.pc = "idle", !.ended = "threw"]
  /\ UNCHANGED <<tables, last, runs>>

\* await client.query("BEGIN").
BeginTransaction ==
  /\ sessions.pc = "begin"
  /\ \E ok \in BOOLEAN :
       sessions' = IF ok
                   THEN [sessions EXCEPT !.pc = "select", !.tx = "open"]
                   ELSE [sessions EXCEPT !.pc = "catch"]
  /\ UNCHANGED <<tables, last, runs>>

\* The selection of the batch.
SelectBatch ==
  /\ sessions.pc = "select"
  /\ \E ok \in BOOLEAN :
     \E run \in {PassOf(sessions.op, sessions.batchSize)} :
       sessions' = IF ok
                   THEN [sessions EXCEPT !.pc = "loop",
                                         !.left = LoopStatements(run.steps)]
                   ELSE [sessions EXCEPT !.pc = "catch"]
  /\ UNCHANGED <<tables, last, runs>>

\* One awaited statement of the loop.
LoopStatement ==
  /\ sessions.pc = "loop"
  /\ sessions.left > 0
  /\ \E ok \in BOOLEAN :
       sessions' = IF ok
                   THEN [sessions EXCEPT !.left = @ - 1]
                   ELSE [sessions EXCEPT !.pc = "catch"]
  /\ UNCHANGED <<tables, last, runs>>

\* await client.query("COMMIT") after the loop.
CommitTransaction ==
  /\ sessions.pc = "loop"
  /\ sessions.left = 0
  /\ \E ok \in BOOLEAN :
     \E run \in {PassOf(sessions.op, sessions.batchSize)} :
     \E pass \in {PassResult(Database, run.keys, run.steps, NoFailure)} :
       IF ok
       THEN /\ Stored(pass.db)
            /\ sessions' = [sessions EXCEPT !.pc = "finally",
                                            !.tx = "committed",
                                            !.pending = "return"]
       ELSE /\ UNCHANGED tables
            /\ sessions' = [sessions EXCEPT !.pc = "catch"]
  /\ UNCHANGED <<last, runs>>

\* The catch block: await client.query("ROLLBACK"); throw error.  When the
\* ROLLBACK throws, its error is the one thrown.
RollbackTransaction ==
  /\ sessions.pc = "catch"
  /\ \E ok \in BOOLEAN :
       sessions' = [sessions EXCEPT
                      !.pc = "finally",
                      !.rollbacks = @ + 1,
                      !.tx = IF ok /\ @ = "open" THEN "rolled back" ELSE @,
                      !.pending = "throw"]
  /\ UNCHANGED <<tables, last, runs>>

\* Variant: the release after the try statement instead of in finally.
ReleaseClientOnReturn ==
  (sessions.pc = "finally"
     /\ (sessions' = IF sessions.pending = "return"
                     THEN [sessions EXCEPT !.pc = "idle",
                                           !.releases = @ + 1,
                                           !.client = "released",
                                           !.ended = "returned"]
                     ELSE [sessions EXCEPT !.pc = "idle",
                                           !.ended = "threw"])
     /\ UNCHANGED <<tables, last, runs>>)

\* The finally block: client.release(); then the call returns its counters
\* or throws.
ReleaseClient ==
  /\ sessions.pc = "finally"
  /\ sessions' = [sessions EXCEPT
                    !.pc = "idle",
                    !.releases = @ + 1,
                    !.client = "released",
                    !.ended = IF sessions.pending = "return"
                              THEN "returned" ELSE "threw"]
  /\ UNCHANGED <<tables, last, runs>>

NextDiscipline ==
  \/ \E batchSize \in BatchSizes : CallPass("production", batchSize)
  \/ \E batchSize \in BatchSizes : CallPass("shipping", batchSize)
  \/ ConnectClient
  \/ BeginTransaction
  \/ SelectBatch
  \/ LoopStatement
  \/ CommitTransaction
  \/ RollbackTransaction
  \/ ReleaseClient

\* The seeded test database, no call made yet.
InitDiscipline ==
  /\ prodLogs = [k \in 1..Len(SeedProductionLogs) |->
                   WithProductionKey(SeedProductionLogs[k], k)]
  /\ shipLogs = [k \in 1..Len(SeedShippingLogs) |->
                   WithShippingKey(SeedShippingLogs[k], k)]
  /\ lots = SeedLots
  /\ issueTypes = {}
  /\ ledger = {}
  /\ events = {}
  /\ flags = {}
  /\ last = NoCall
  /\ runs = 0
  /\ sessions = NoClient

SpecDiscipline == InitDiscipline /\ [][NextDiscipline]_vars

(***************************************************************************)
(* An operator invoking processAllLogs again and again on a fixed set of  *)
(* raw records: as many production rows as there are invocations, so that *)
(* a batch size of 1 can reach each of them, and one shipment.            *)
(***************************************************************************)
InitProgress ==
  /\ \E choice \in [1..MaxRuns -> ProductionRows] :
       prodLogs = [k \in 1..MaxRuns |-> WithProductionKey(choice[k], k)]
  /\ \E only \in ShippingRows :
       shipLogs = <<WithShippingKey(only, 1)>>
  /\ EmptyReporting

NextProgress ==
  \E batchSize \in BatchSizes : processAllLogs(batchSize, Reliable)

\* An invocation is made.  processAllLogs can be called in every state, so
\* within the explored number of invocations this is when NextProgress is
\* enabled, and every step of NextProgress is one.
Invocation == runs < MaxRuns /\ runs' = runs + 1

\* The operator keeps invoking: an invocation that can be made is made.
SpecProgress ==
  InitProgress /\ [][NextProgress]_vars /\ WF_runs(Invocation)

(***************************************************************************)
(* Ingestion of records by date: one clean production record and one clean *)
(* shipment of the same lot, each on any of the dates below.               *)
(***************************************************************************)
\* A Monday, a Wednesday, a Sunday, a Sunday whose Monday is in the month
\* before, a Friday whose Monday is in the year before, a leap day, and a
\* date of the year 0050.
RecordDates ==
  {<<2026, 2, 2>>, Feb4, <<2026, 2, 8>>, <<2026, 3, 1>>, <<2027, 1, 1>>,
   <<2024, 2, 29>>, <<2025, 12, 31>>, <<50, 1, 5>>}

InitDates ==
  /\ \E runDate \in RecordDates :
       prodLogs = <<WithProductionKey(
                      ProductionRow(runDate, LineA, Lot100, Scratch, "true"),
                      1)>>
  /\ \E shipDate \in RecordDates :
       shipLogs = <<WithShippingKey(ShippingRow(shipDate, Lot100, Late), 1)>>
  /\ EmptyReporting

SpecDates == InitDates /\ [][Next]_vars

(***************************************************************************)
(* Flag counts (getFlagCounts over FLAG_COUNTS_SQL), read after ingestion  *)
(* of raw rows whose dates spread over four weeks.                         *)
(***************************************************************************)
WeeksProductionLogs ==
  <<ProductionRow(<<2026, 1, 20>>, LineA, Lot999, Scratch, "true"),
    ProductionRow(<<2026, 2, 2>>, LineA, NullText, Scratch, "true"),
    ProductionRow(<<2026, 2, 8>>, LineA, Unreadable, Scratch, "true"),
    ProductionRow(<<2026, 2, 9>>, LineA, Lot100, NullText, "true"),
    ProductionRow(NullDate, LineA, Lot100, Scratch, "true"),
    ProductionRow(<<2026, 2, 3>>, LineA, Lot100, Scratch, "true"),
    ProductionRow(<<2026, 2, 4>>, LineB, Lot100, Scratch, "true")>>

WeeksShippingLogs ==
  <<ShippingRow(<<2026, 2, 5>>, Lot999, Late),
    ShippingRow(<<2026, 1, 27>>, Lot200, Late),
    ShippingRow(NullDate, Lot100, Late)>>

InitWeeks ==
  /\ prodLogs = [k \in 1..Len(WeeksProductionLogs) |->
                   WithProductionKey(WeeksProductionLogs[k], k)]
  /\ shipLogs = [k \in 1..Len(WeeksShippingLogs) |->
                   WithShippingKey(WeeksShippingLogs[k], k)]
  /\ EmptyReporting

\* Batch sizes of the ingestion calls made before a report is read.
ReportBatchSizes == {1, 3, DEFAULT_BATCH_SIZE}

ReportedFlagTypes == <<"CONFLICT", "INCOMPLETE_DATA", "UNMATCHED_LOT_ID">>

\* FLAG_COUNTS_SQL, "dqf.flag_type IN (...)".
IsReportedFlagType(flagType) ==
  \E i \in 1..Len(ReportedFlagTypes) : ReportedFlagTypes[i] = flagType

\* FLAG_COUNTS_SQL, COALESCE(p.run_date, s.ship_date) over the two LEFT JOINs.
FlagDate(db, f) ==
  IF f.production_log_key \in DOMAIN db.prod
     /\ db.prod[f.production_log_key].run_date # NullDate
  THEN db.prod[f.production_log_key].run_date
  ELSE IF f.shipping_log_key \in DOMAIN db.ship
  THEN db.ship[f.shipping_log_key].ship_date
  ELSE NullDate

\* Variant: the week of a flag taken as its date.
FlagWeekUntruncated(date) == date

\* FLAG_COUNTS_SQL, date_trunc('week', dq.flag_date)::date.
FlagWeek(date) == DateTruncWeek(date)

\* FLAG_COUNTS_SQL, the CTE and the outer WHERE: the flags counted.
FlagsCounted(db, startWeek, endWeek) ==
  {f \in db.flags :
     /\ IsReportedFlagType(f.flag_type)
     /\ FlagDate(db, f) # NullDate
     /\ DateLessEq(startWeek, FlagWeek(FlagDate(db, f)))
     /\ DateLessEq(FlagWeek(FlagDate(db, f)), endWeek)}

\* FLAG_COUNTS_SQL, SELECT .. GROUP BY: one row per (week, flag type).
FlagGroups(db, counted) ==
  {[week_start_date |-> FlagWeek(FlagDate(db, f)),
    flag_type |-> f.flag_type,
    flagged_count |->
      Cardinality({g \in counted :
                     /\ FlagWeek(FlagDate(db, g)) = FlagWeek(FlagDate(db, f))
                     /\ g.flag_type = f.flag_type})] :
     f \in counted}

FlagTypeRank(flagType) ==
  CHOOSE i \in 1..Len(ReportedFlagTypes) : ReportedFlagTypes[i] = flagType

\* FLAG_COUNTS_SQL, ORDER BY week, flag_type.
FlagCountBefore(a, b) ==
  \/ a.week_start_date # b.week_start_date
       /\ DateLessEq(a.week_start_date, b.week_start_date)
  \/ a.week_start_date = b.week_start_date
       /\ FlagTypeRank(a.flag_type) < FlagTypeRank(b.flag_type)

RECURSIVE FlagCountOrders(_)
FlagCountOrders(rows) ==
  IF rows = {} THEN {<<>>}
  ELSE UNION {{<<r>> \o rest : rest \in FlagCountOrders(rows \ {r})} :
                r \in {x \in rows : \A y \in rows : ~FlagCountBefore(y, x)}}

\* The rows mapped by getFlagCounts.
FlagCountRow(row) ==
  [week_start_date |-> coerceDateToIso(row.week_start_date),
   flag_type |-> row.flag_type,
   flagged_count |-> row.flagged_count]

\* getFlagCounts(pool, startWeek, endWeek): a read; the rows returned are
\* kept in last.
getFlagCounts(startWeek, endWeek) ==
  /\ \E ordered \in
        FlagCountOrders(FlagGroups(Database, FlagsCounted(Database, startWeek, endWeek))) :
       last' = [op |-> "getFlagCounts", batchSize |-> 0, threw |-> FALSE,
                production |-> NoPass, shipping |-> NoPass,
                startWeek |-> startWeek, endWeek |-> endWeek,
                rows |-> [i \in 1..Len(ordered) |-> FlagCountRow(ordered[i])]]
  /\ UNCHANGED <<tables, runs, sessions>>

NextFlagReports ==
  \/ \E batchSize \in ReportBatchSizes : processAllLogs(batchSize, Reliable)
  \/ \E startWeek \in WeekArguments, endWeek \in WeekArguments :
       getFlagCounts(startWeek, endWeek)

SpecFlagReports == InitWeeks /\ [][NextFlagReports]_vars

(***************************************************************************)
(* The week bucketing function on its own: getWeekStartUTC applied to      *)
(* calendar dates.                                                         *)
(***************************************************************************)
\* Dates the function is applied to, as day numbers: four months around the
\* turn of 2026, the days around a leap day, the days around the epoch, and
\* a week of the year 0050.
CalendarDays ==
  (DaysFromCivil(2025, 12, 1)..DaysFromCivil(2026, 3, 31))
    \cup (DaysFromCivil(2024, 2, 24)..DaysFromCivil(2024, 3, 5))
    \cup (DaysFromCivil(1969, 12, 24)..DaysFromCivil(1970, 1, 8))
    \cup (DaysFromCivil(50, 1, 3)..DaysFromCivil(50, 1, 9))

\* getWeekStartUTC(date) for a Date at midnight UTC; the argument and the
\* result are kept in last.
WeekStartOf(date) ==
  /\ last' = [op |-> "getWeekStartUTC", batchSize |-> 0, threw |-> FALSE,
              production |-> NoPass, shipping |-> NoPass,
              date |-> date, weekStart |-> getWeekStartUTC(date)]
  /\ UNCHANGED <<tables, runs, sessions>>

NextWeeks == \E date \in CalendarDays : WeekStartOf(date)

InitCalendar ==
  /\ prodLogs = <<>>
  /\ shipLogs = <<>>
  /\ EmptyReporting

SpecWeeks == InitCalendar /\ [][NextWeeks]_vars

(***************************************************************************)
(* Properties.                                                             *)
(***************************************************************************)
Range(seq) == {seq[i] : i \in DOMAIN seq}

ProductionEvents(k) == {ie \in events : ie.production_log_key = k}
ProductionFlags(k) == {f \in flags : f.production_log_key = k}
ShippingEvents(k) == {ie \in events : ie.shipping_log_key = k}
ShippingFlags(k) == {f \in flags : f.shipping_log_key = k}

Committed(report) == report.ran /\ ~ report.threw

\* The step is a call of an entry point (every call counts in runs).
Called == runs' = runs + 1

\* C1: after any sequence of committed runs, no raw log record is referenced
\* by both an IssueEvent and a DataQualityFlag.
C1_NoRecordWithEventAndFlag ==
  /\ \A k \in DOMAIN prodLogs :
       ProductionEvents(k) = {} \/ ProductionFlags(k) = {}
  /\ \A k \in DOMAIN shipLogs :
       ShippingEvents(k) = {} \/ ShippingFlags(k) = {}

\* C2: after any sequence of committed runs, at most one DataQualityFlag
\* references any given raw log record.
C2_AtMostOneFlagPerRecord ==
  /\ \A k \in DOMAIN prodLogs : Cardinality(ProductionFlags(k)) <= 1
  /\ \A k \in DOMAIN shipLogs : Cardinality(ShippingFlags(k)) <= 1

\* C3: once the batch that selected a raw record has committed, the record is
\* referenced by an IssueEvent or by a DataQualityFlag.
C3_SelectedRecordHasOutcome ==
  /\ Committed(last.production) =>
       \A k \in Range(last.production.selected) :
         ProductionEvents(k) # {} \/ ProductionFlags(k) # {}
  /\ Committed(last.shipping) =>
       \A k \in Range(last.shipping.selected) :
         ShippingEvents(k) # {} \/ ShippingFlags(k) # {}

\* C4: at most one IssueEvent references any given raw log record, and a
\* record that already has an IssueEvent is not selected by a later run.
C4_AtMostOneEventPerRecord ==
  /\ [](/\ \A k \in DOMAIN prodLogs : Cardinality(ProductionEvents(k)) <= 1
        /\ \A k \in DOMAIN shipLogs : Cardinality(ShippingEvents(k)) <= 1)
  /\ [][Called =>
          /\ \A k \in Range(last'.production.selected) :
               ProductionEvents(k) = {}
          /\ \A k \in Range(last'.shipping.selected) :
               ShippingEvents(k) = {}]_vars

\* A record holds an event from an earlier run, and the last run was a
\* committed production pass that selected other records and not this one.
C4_Witness ==
  /\ last.op = "production"
  /\ Committed(last.production)
  /\ last.production.selected # <<>>
  /\ \E k \in DOMAIN prodLogs :
       /\ ProductionEvents(k) # {}
       /\ k \notin Range(last.production.selected)

\* C5: after a processAllLogs call whose batch size covers every raw record,
\* an immediately following processAllLogs call selects no record, returns
\* processed = 0 and flagged = 0 for both sources and changes no table.
C5_SecondRunSelectsNothing ==
  [][(/\ last.op = "all"
      /\ ~ last.threw
      /\ last.batchSize >= Cardinality(DOMAIN prodLogs)
      /\ last.batchSize >= Cardinality(DOMAIN shipLogs)
      /\ Called
      /\ last'.op = "all"
      /\ ~ last'.threw)
     => (/\ last'.production.selected = <<>>
         /\ last'.shipping.selected = <<>>
         /\ last'.production.processed = 0
         /\ last'.production.flagged = 0
         /\ last'.shipping.processed = 0
         /\ last'.shipping.flagged = 0
         /\ UNCHANGED tables)]_vars

\* C6: a processProductionLogs or processShippingLogs pass during which a
\* storage operation fails rethrows and leaves every table as it was before
\* the pass began.
C6_FailedPassChangesNothing ==
  [][(/\ Called
      /\ \/ last'.production.threw
         \/ (last'.op = "shipping" /\ last'.shipping.threw))
     => (last'.threw /\ UNCHANGED tables)]_vars

\* A pass threw after its transaction had already written.
C6_Witness ==
  /\ last.op \in {"production", "shipping"}
  /\ last.threw
  /\ last.production.dirty \/ last.shipping.dirty

\* C7: each lot has at most one LotLineAssignment row, and an assignment
\* row, once stored, stays as it is.
C7_LedgerFirstWriterWins ==
  /\ [](\A a \in ledger : \A b \in ledger : a.lot_key = b.lot_key => a = b)
  /\ [][ledger \subseteq ledger']_vars

\* A lot is assigned and a later claim of another line for it was rejected.
C7_Witness ==
  /\ runs = MaxRuns
  /\ \E a \in ledger : \E f \in flags :
       /\ f.flag_type = "CONFLICT"
       /\ prodLogs[f.production_log_key].lot_key = a.lot_key
       /\ prodLogs[f.production_log_key].production_line_key
            # a.production_line_key

\* A production row that passes every check but the ledger's: date and line
\* present, lot in the lot master, defect label that normalizes to something.
OtherwiseValid(row) ==
  /\ parseIsoDateUTC(row.run_date) # NoDate
  /\ row.production_line_key # NullKey
  /\ FindLot(Database, normalizeLotId(row.lot_id_raw)) # {}
  /\ Truthy(row.primary_issue)
  /\ Truthy(normalizeLabel(row.primary_issue))

LotOf(row) ==
  (CHOOSE l \in FindLot(Database, normalizeLotId(row.lot_id_raw)) : TRUE).lot_key

\* The first call was a committed production pass over rows 1, 2, 3, which
\* are otherwise valid, name one lot and claim lines A, B, A for it.
FirstWriterScenario ==
  /\ runs = 1
  /\ last.op = "production"
  /\ Committed(last.production)
  /\ last.production.selected = <<1, 2, 3>>
  /\ \A k \in 1..3 : OtherwiseValid(prodLogs[k])
  /\ \A k \in 2..3 : LotOf(prodLogs[k]) = LotOf(prodLogs[1])
  /\ prodLogs[1].production_line_key = LineA
  /\ prodLogs[2].production_line_key = LineB
  /\ prodLogs[3].production_line_key = LineA

\* C8: for a lot with no prior assignment, otherwise-valid production records
\* claiming line A, then B, then A: the first is accepted and creates the
\* assignment (lot, A); the second gets a CONFLICT flag and no IssueEvent and
\* the ledger keeps A; the third is accepted and adds no ledger row.
C8_FirstWriterWinsOutcomes ==
  FirstWriterScenario =>
    /\ Cardinality(ProductionEvents(1)) = 1
    /\ {[lot_key |-> a.lot_key, production_line_key |-> a.production_line_key] :
          a \in ledger}
         = {[lot_key |-> LotOf(prodLogs[1]), production_line_key |-> LineA]}
    /\ Cardinality(ledger) = 1
    /\ ProductionEvents(2) = {}
    /\ {f.flag_type : f \in ProductionFlags(2)} = {"CONFLICT"}
    /\ Cardinality(ProductionFlags(2)) = 1
    /\ Cardinality(ProductionEvents(3)) = 1
    /\ ProductionFlags(1) = {}
    /\ ProductionFlags(3) = {}

\* The ledger part of C8 alone (what the three records do to the ledger and
\* to the second record).
C8_LedgerPart ==
  FirstWriterScenario =>
    /\ {[lot_key |-> a.lot_key, production_line_key |-> a.production_line_key] :
          a \in ledger}
         = {[lot_key |-> LotOf(prodLogs[1]), production_line_key |-> LineA]}
    /\ Cardinality(ledger) = 1
    /\ ProductionEvents(2) = {}
    /\ {f.flag_type : f \in ProductionFlags(2)} = {"CONFLICT"}
    /\ ProductionFlags(1) = {}
    /\ ProductionFlags(3) = {}

CountOf(report, outcome) ==
  Cardinality({i \in DOMAIN report.outcomes : report.outcomes[i] = outcome})

\* C9: each pass returns processed = the number of records that received
\* any outcome in the batch (accepted or flagged) and flagged = the number
\* of those that were rejected, so flagged <= processed and processed is the
\* number of records the batch selected.
C9_ProcessedCountsEveryOutcome ==
  \A report \in {last.production, last.shipping} :
    Committed(report) =>
      /\ report.flagged = CountOf(report, "flagged")
      /\ report.flagged <= report.processed
      /\ report.processed = Len(report.selected)

\* C9 as amended: each pass returns flagged = the number of selected records
\* it flagged and processed = the number of selected records it did not
\* flag, so processed + flagged is the number of records the batch selected.
C9_ProcessedCountsUnflagged ==
  \A report \in {last.production, last.shipping} :
    Committed(report) =>
      /\ report.flagged = CountOf(report, "flagged")
      /\ report.processed = Len(report.selected) - CountOf(report, "flagged")
      /\ report.processed + report.flagged = Len(report.selected)

\* A committed pass that flagged more records than it reports as processed.
C9_Witness ==
  /\ Committed(last.production)
  /\ last.production.flagged > last.production.processed
  /\ last.production.processed > 0

\* C10: a production record that passes every check and whose computed
\* quantity is 0 is projected: after the batch commits an IssueEvent with
\* quantityImpacted = 0 references it.
C10_ZeroQuantityProjected ==
  Committed(last.production) =>
    \A i \in DOMAIN last.production.selected :
      LET k == last.production.selected[i]
      IN (/\ last.production.outcomes[i] # "flagged"
          /\ deriveProductionQty(prodLogs[k]) = 0)
         => \E ie \in ProductionEvents(k) : ie.qty_impacted = 0

\* The tables of db that differ from those of after.
ChangedTables(db, after) ==
  {t \in {"prod", "ship", "lots", "issueTypes", "ledger", "events", "flags"} :
     db[t] # after[t]}

\* The lot a raw row names, by its pre-resolved key or its normalized raw id
\* (NullKey when it names none in the lot master).
LotNamed(db, row) ==
  IF row.lot_key # NullKey THEN row.lot_key
  ELSE IF \E l \in db.lots : l.lot_id_norm = normalizeLotId(row.lot_id_raw)
  THEN (CHOOSE l \in db.lots :
          l.lot_id_norm = normalizeLotId(row.lot_id_raw)).lot_key
  ELSE NullKey

\* The numbered checks of the production classifier, as failure conditions.
ProductionCheckFails(db, row, n) ==
  CASE n = 1 -> row.run_date = NullDate \/ row.production_line_key = NullKey
    [] n = 2 -> LotNamed(db, row) = NullKey
    [] n = 3 -> ~ Truthy(row.primary_issue)
    [] n = 4 -> ~ Truthy(normalizeLabel(row.primary_issue))
    [] n = 5 -> \E a \in db.ledger :
                  /\ a.lot_key = LotNamed(db, row)
                  /\ a.production_line_key # row.production_line_key
    [] n = 8 -> parseIsoDateUTC(row.run_date) = NoDate

ProductionChecks == {1, 2, 3, 4, 5, 8}

\* The first failing check of a production row, 0 when none fails.
FirstFailingProductionCheck(db, row) ==
  LET failing == {n \in ProductionChecks : ProductionCheckFails(db, row, n)}
  IN IF failing = {} THEN 0
     ELSE CHOOSE n \in failing : \A m \in failing : n <= m

ProductionFlagOf(n) ==
  CASE n = 2 -> "UNMATCHED_LOT_ID"
    [] n = 5 -> "CONFLICT"
    [] OTHER -> "INCOMPLETE_DATA"

\* Tables a production record rejected at check n may have written: the flag
\* itself, the lot backfill of check 2, the issue type upserted by check 4,
\* the ledger row written after check 5.
ProductionWritesBefore(n) ==
  {"flags"} \cup (IF n > 2 THEN {"prod"} ELSE {})
            \cup (IF n > 4 THEN {"issueTypes"} ELSE {})
            \cup (IF n > 5 THEN {"ledger"} ELSE {})

\* The rejections of the production classifier follow the fixed order, and
\* a record failing no check is not flagged.
ProductionFlagOrder ==
  \A k \in UnprocessedProductionKeys(Database) :
    \A step \in {ProductionRecord(Database, prodLogs[k])} :
      \A n \in {FirstFailingProductionCheck(Database, prodLogs[k])} :
        IF n = 0 THEN step.outcome # "flagged"
        ELSE /\ step.outcome = "flagged"
             /\ step.flagType = ProductionFlagOf(n)
             /\ ChangedTables(Database, Last(step.writes))
                  \subseteq ProductionWritesBefore(n)
             /\ Cardinality(Last(step.writes).flags) = Cardinality(flags) + 1

\* C11: the flag type of a production record is that of its first failing
\* check in the order 1 (date and line present), 2 (lot resolves), 3 (defect
\* label present), 4 (label valid), 5 (ledger line matches), 8 (date valid);
\* a record failing no check is accepted (an IssueEvent is projected for
\* it), and no check after the failing one leaves a write.
C11_ProductionClassifierOrder ==
  /\ ProductionFlagOrder
  /\ \A k \in UnprocessedProductionKeys(Database) :
       \A step \in {ProductionRecord(Database, prodLogs[k])} :
         FirstFailingProductionCheck(Database, prodLogs[k]) = 0
           => /\ step.outcome = "projected"
              /\ \E ie \in Last(step.writes).events :
                   ie.production_log_key = k

\* The numbered checks of the shipping classifier, as failure conditions.
ShippingCheckFails(db, row, n) ==
  CASE n = 1 -> row.ship_date = NullDate
    [] n = 2 -> LotNamed(db, row) = NullKey
    [] n = 3 -> ~ \E a \in db.ledger : a.lot_key = LotNamed(db, row)
    [] n = 4 -> ~ Truthy(row.hold_reason)
    [] n = 5 -> ~ Truthy(normalizeLabel(row.hold_reason))
    [] n = 7 -> parseIsoDateUTC(row.ship_date) = NoDate

ShippingChecks == {1, 2, 3, 4, 5, 7}

FirstFailingShippingCheck(db, row) ==
  LET failing == {n \in ShippingChecks : ShippingCheckFails(db, row, n)}
  IN IF failing = {} THEN 0
     ELSE CHOOSE n \in failing : \A m \in failing : n <= m

ShippingFlagOf(n) == IF n = 2 THEN "UNMATCHED_LOT_ID" ELSE "INCOMPLETE_DATA"

\* C12: the flag type of a shipping record is that of its first failing
\* check in the order 1 (ship date present), 2 (lot resolves), 3 (ledger has
\* an entry for the lot), 4 (hold_reason present), 5 (label valid), 7 (ship
\* date valid); a record whose lot resolves but has no ledger entry is
\* flagged INCOMPLETE_DATA, not UNMATCHED_LOT_ID.
C12_ShippingClassifierOrder ==
  \A k \in UnprocessedShippingKeys(Database) :
    \A step \in {ShippingRecord(Database, shipLogs[k])} :
      \A n \in {FirstFailingShippingCheck(Database, shipLogs[k])} :
        IF n = 0 THEN step.outcome # "flagged"
        ELSE /\ step.outcome = "flagged"
             /\ step.flagType = ShippingFlagOf(n)
             /\ \E f \in Last(step.writes).flags \ flags :
                  /\ f.shipping_log_key = k
                  /\ f.flag_type = ShippingFlagOf(n)
             /\ Cardinality(Last(step.writes).flags) = Cardinality(flags) + 1

\* A committed shipping pass flagged a record whose lot is in the lot master
\* but has no ledger entry, and the flag stored for it is INCOMPLETE_DATA.
C12_Witness ==
  /\ Committed(last.shipping)
  /\ \E i \in DOMAIN last.shipping.selected :
       LET k == last.shipping.selected[i]
       IN /\ last.shipping.outcomes[i] = "flagged"
          /\ shipLogs[k].ship_date # NullDate
          /\ LotNamed(Database, shipLogs[k]) # NullKey
          /\ ~ \E a \in ledger : a.lot_key = LotNamed(Database, shipLogs[k])
          /\ \E f \in flags : /\ f.shipping_log_key = k
                              /\ f.flag_type = "INCOMPLETE_DATA"
          /\ ~ \E f \in flags : /\ f.shipping_log_key = k
                                /\ f.flag_type = "UNMATCHED_LOT_ID"

\* A raw row without pre-resolved lot key whose raw lot id is null or blank,
\* normalizes to null, or normalizes to a key absent from the lot master.
NamesNoLot(row) ==
  /\ row.lot_key = NullKey
  /\ \/ ~ Truthy(row.lot_id_raw)
     \/ ~ Truthy(normalizeLotId(row.lot_id_raw))
     \/ ~ \E l \in lots : l.lot_id_norm = normalizeLotId(row.lot_id_raw)

\* The records a committed pass of the last call selected, as
\* <<source, key, outcome>>.
LastSelected ==
  {<<"PRODUCTION_LOG", last.production.selected[i],
     last.production.outcomes[i]>> :
       i \in IF Committed(last.production)
             THEN DOMAIN last.production.selected ELSE {}}
  \cup
  {<<"SHIPPING_LOG", last.shipping.selected[i], last.shipping.outcomes[i]>> :
       i \in IF Committed(last.shipping)
             THEN DOMAIN last.shipping.selected ELSE {}}

RowOf(rec) == IF rec[1] = "PRODUCTION_LOG" THEN prodLogs[rec[2]]
              ELSE shipLogs[rec[2]]

EventsOf(rec) == IF rec[1] = "PRODUCTION_LOG" THEN ProductionEvents(rec[2])
                 ELSE ShippingEvents(rec[2])

FlagsOf(rec) == IF rec[1] = "PRODUCTION_LOG" THEN ProductionFlags(rec[2])
                ELSE ShippingFlags(rec[2])

\* The required fields of check 1: run date and line, or ship date.
RequiredFieldsPresent(rec) ==
  IF rec[1] = "PRODUCTION_LOG"
  THEN RowOf(rec).run_date # NullDate
       /\ RowOf(rec).production_line_key # NullKey
  ELSE RowOf(rec).ship_date # NullDate

FlaggedUnmatchedOnly(rec) ==
  /\ rec[3] = "flagged"
  /\ FlagsOf(rec) # {}
  /\ \A f \in FlagsOf(rec) : f.flag_type = "UNMATCHED_LOT_ID"
  /\ EventsOf(rec) = {}

\* C13: a record with no pre-resolved lot key whose raw lot id is null or
\* blank, normalizes to null, or normalizes to a key absent from the lot
\* master is flagged UNMATCHED_LOT_ID with no IssueEvent, and no processing
\* run changes the set of Lot rows.
C13_UnmatchedLotFlagged ==
  /\ [][\A rec \in LastSelected' :
         NamesNoLot(RowOf(rec)) => FlaggedUnmatchedOnly(rec)']_vars
  /\ [][lots' = lots]_vars

\* C13 as amended: such a record, when its required fields (run date and
\* line, or ship date) are present, is flagged UNMATCHED_LOT_ID with no
\* IssueEvent; no processing run changes the set of Lot rows.
C13_UnmatchedLotFlaggedWhenComplete ==
  /\ [][\A rec \in LastSelected' :
         (NamesNoLot(RowOf(rec)) /\ RequiredFieldsPresent(rec))
           => FlaggedUnmatchedOnly(rec)']_vars
  /\ [][lots' = lots]_vars

\* A committed pass flagged a record whose raw lot id normalizes to a key
\* that the lot master lacks.
C13_Witness ==
  \E rec \in LastSelected :
    /\ NamesNoLot(RowOf(rec))
    /\ RequiredFieldsPresent(rec)
    /\ Truthy(normalizeLotId(RowOf(rec).lot_id_raw))
    /\ FlaggedUnmatchedOnly(rec)

\* A defect label that is missing (NULL), empty or whitespace-only.
NoLabel(text) == text = NullText \/ Trim(text) = <<>>

\* C14: a production record with valid date, line and resolvable lot whose
\* primary_issue is missing, empty or whitespace-only is flagged
\* INCOMPLETE_DATA with missing field primary_issue and gets no IssueEvent.
C14_MissingDefectLabelFlagged ==
  [][\A rec \in LastSelected' :
       (/\ rec[1] = "PRODUCTION_LOG"
        /\ parseIsoDateUTC(RowOf(rec).run_date) # NoDate
        /\ RowOf(rec).production_line_key # NullKey
        /\ LotNamed(Database, RowOf(rec)) # NullKey
        /\ NoLabel(RowOf(rec).primary_issue))
       => /\ rec[3] = "flagged"
          /\ \E f \in flags' \ flags : f.production_log_key = rec[2]
          /\ \A f \in ProductionFlags(rec[2])' :
               /\ f.flag_type = "INCOMPLETE_DATA"
               /\ f.missing_fields = "primary_issue"
          /\ ProductionEvents(rec[2])' = {}]_vars

\* A committed pass flagged a record, with its lot resolved, whose defect
\* label is whitespace-only.
C14_Witness ==
  \E rec \in LastSelected :
    /\ rec[1] = "PRODUCTION_LOG"
    /\ rec[3] = "flagged"
    /\ RowOf(rec).primary_issue = Blank
    /\ RowOf(rec).lot_key # NullKey
    /\ \E f \in ProductionFlags(rec[2]) : f.missing_fields = "primary_issue"
    /\ ProductionEvents(rec[2]) = {}

\* Rows and results a session or the committed table holds for one key.
IssueTypesSeenBy(s) == issueTypes \cup sessions.client[s].own

\* C15: at most one IssueType row per (source, normalizedLabel), whatever
\* the sequence or interleaving of ensureIssueType calls; labels that
\* normalize identically within a source resolve to the same key, and one
\* normalized label under PRODUCTION and SHIPPING is two distinct rows.
C15_IssueTypeUniqueness ==
  /\ \A a \in issueTypes : \A b \in issueTypes :
       (a.source = b.source /\ a.issue_label_norm = b.issue_label_norm)
         => a = b
  /\ \A s \in Sessions :
       \A i \in DOMAIN sessions.client[s].results :
         LET r == sessions.client[s].results[i]
         IN r.key >= 0 =>
              /\ \A row \in IssueTypesSeenBy(s) :
                   (row.source = r.source
                      /\ row.issue_label_norm = r.issue_label_norm)
                     <=> row.issue_type_key = r.key
              /\ \E row \in IssueTypesSeenBy(s) : row.issue_type_key = r.key

\* Two transactions are open at once: one has inserted, uncommitted, the
\* same normalized label under PRODUCTION and under SHIPPING, and the other
\* is about to ask for that PRODUCTION label under another spelling.
C15_Witness ==
  \E s \in Sessions : \E t \in Sessions \ {s} :
    /\ \E a \in sessions.client[s].own : \E b \in sessions.client[s].own :
         /\ a.source = "PRODUCTION" /\ b.source = "SHIPPING"
         /\ a.issue_label_norm = b.issue_label_norm
         /\ a.issue_type_key # b.issue_type_key
         /\ sessions.client[t].pc = "open"
         /\ sessions.client[t].todo # <<>>
         /\ Head(sessions.client[t].todo).source = a.source
         /\ Head(sessions.client[t].todo).label # a.issue_label
         /\ normalizeLabel(Head(sessions.client[t].todo).label)
              = a.issue_label_norm

\* The raw defect label of the record an IssueEvent refers to.
LabelOf(ie) ==
  IF ie.event_source = "PRODUCTION"
  THEN prodLogs[ie.production_log_key].primary_issue
  ELSE shipLogs[ie.shipping_log_key].hold_reason

\* C16: upserting an issue type whose (source, normalizedLabel) exists
\* returns the existing key and leaves the stored display label unchanged:
\* every IssueType row stays as first stored, and every event carries the
\* key of the one row stored for its source and normalized label.
C16_UpsertKeepsFirstLabel ==
  /\ [][issueTypes \subseteq issueTypes']_vars
  /\ [](\A ie \in events : \E it \in issueTypes :
          /\ it.issue_type_key = ie.issue_type_key
          /\ it.source = ie.event_source
          /\ it.issue_label_norm = normalizeLabel(LabelOf(ie))
          /\ \A other \in issueTypes :
               other.issue_type_key = it.issue_type_key => other = it)

\* An event whose record spells the defect label differently from the
\* stored issue type it was given.
C16_Witness ==
  \E ie \in events : \E it \in issueTypes :
    /\ it.issue_type_key = ie.issue_type_key
    /\ it.issue_label # LabelOf(ie)
    /\ it.issue_label_norm = normalizeLabel(LabelOf(ie))

\* A shipping row that passes every check not concerning the ledger.
ShipmentOtherwiseValid(row) ==
  /\ parseIsoDateUTC(row.ship_date) # NoDate
  /\ LotNamed(Database, row) # NullKey
  /\ Truthy(row.hold_reason)
  /\ Truthy(normalizeLabel(row.hold_reason))

\* C17: processAllLogs commits the production pass before the shipping pass
\* begins: when the production pass of a call assigns lot L to line A, an
\* otherwise-valid shipping record for L selected in the same call is
\* accepted with line A rather than flagged.
C17_ShippingSeesProductionLedger ==
  [][(last'.op = "all" /\ Called /\ Committed(last'.shipping))
       => \A i \in DOMAIN last'.shipping.selected :
            \A j \in DOMAIN last'.production.selected :
              LET k == last'.shipping.selected[i]
                  p == prodLogs[last'.production.selected[j]]
              IN (/\ last'.production.outcomes[j] # "flagged"
                  /\ ~ \E a \in ledger : a.lot_key = LotNamed(Database, p)
                  /\ ShipmentOtherwiseValid(shipLogs[k])
                  /\ LotNamed(Database, shipLogs[k]) = LotNamed(Database, p))
                 => /\ last'.shipping.outcomes[i] = "projected"
                    /\ \E ie \in events' \ events :
                         /\ ie.shipping_log_key = k
                         /\ ie.production_line_key = p.production_line_key
                         /\ ie.lot_key = LotNamed(Database, p)
                    /\ ~ \E f \in flags' \ flags : f.shipping_log_key = k]_vars

\* After a first call of processAllLogs the ledger holds an assignment, which
\* only that call's production pass can have written, and a shipping record
\* of that lot was projected onto the assigned line.
C17_Witness ==
  /\ runs = 1
  /\ last.op = "all"
  /\ Committed(last.shipping)
  /\ \E a \in ledger : \E ie \in events :
       /\ ie.event_source = "SHIPPING"
       /\ ie.lot_key = a.lot_key
       /\ ie.production_line_key = a.production_line_key

\* C18: the passes of processAllLogs are separate transactions: when the
\* shipping pass fails and rolls back, every write the production pass of
\* the same call committed persists (and none of the shipping pass does).
C18_ProductionCommitSurvivesShippingFailure ==
  [][(/\ last'.op = "all"
      /\ Called
      /\ Committed(last'.production)
      /\ last'.shipping.threw)
       => /\ \A i \in DOMAIN last'.production.selected :
               LET k == last'.production.selected[i]
               IN /\ last'.production.outcomes[i] = "projected"
                       => \E ie \in events' \ events :
                            ie.production_log_key = k
                  /\ last'.production.outcomes[i] = "flagged"
                       => \E f \in flags' \ flags : f.production_log_key = k
          /\ \E run \in {ProductionSteps(Database, last'.batchSize)} :
               Database' = PassResult(Database, run.keys, run.steps,
                                      NoFailure).db
          /\ shipLogs' = shipLogs
          /\ \A ie \in events' \ events : ie.event_source = "PRODUCTION"
          /\ \A f \in flags' \ flags : f.source = "PRODUCTION_LOG"]_vars

\* A first processAllLogs call whose production pass committed an event
\* and a flag and whose shipping pass threw after writing.
C18_Witness ==
  /\ runs = 1
  /\ last.op = "all"
  /\ Committed(last.production)
  /\ last.shipping.threw
  /\ last.shipping.dirty
  /\ events # {}
  /\ flags # {}
  /\ ledger # {}

\* C19: a failure of the production pass does not prevent the shipping pass
\* from being attempted: after the production pass fails and rolls back the
\* shipping pass is still run, by the same processAllLogs call or by a
\* processShippingLogs call that follows.
C19_ShippingRunsAfterProductionFailure ==
  [][(Called /\ last'.production.threw)
       => (last'.op = "all" => last'.shipping.ran)]_vars

\* C19 as amended: when the production pass of processAllLogs fails and
\* rolls back, the call rethrows without running the shipping pass and
\* leaves every table as it was; a processShippingLogs call that follows
\* a failed production pass runs the shipping pass as its own transaction,
\* on the records the shipping selection yields.
C19_ShippingRunsSeparatelyAfterProductionFailure ==
  /\ [][(Called /\ last'.op = "all" /\ last'.production.threw)
          => /\ ~ last'.shipping.ran
             /\ last'.threw
             /\ UNCHANGED tables]_vars
  /\ [][(Called /\ last.production.threw /\ last'.op = "shipping")
          => /\ last'.shipping.ran
             /\ last'.shipping.selected
                  = Limit(Ascending(UnprocessedShippingKeys(Database)),
                          last'.batchSize)
             /\ ~ last'.shipping.threw =>
                  /\ Committed(last'.shipping)
                  /\ Cardinality(flags' \ flags) + Cardinality(events' \ events)
                       = Len(last'.shipping.selected)]_vars

\* A processAllLogs call whose production pass threw, with a further call
\* still to come.
C19_Witness ==
  /\ last.op = "all"
  /\ last.production.threw
  /\ ~ last.shipping.ran
  /\ runs < MaxRuns

\* No shipping call follows a failed production pass (refuted when one does).
NoShippingCallAfterProductionFailure ==
  [][~ (Called /\ last.production.threw /\ last'.op = "shipping"
          /\ Committed(last'.shipping))]_vars

\* The line name and the issue label an event is reported under.
LineNameOf(ie) ==
  (CHOOSE pl \in ProductionLines :
     pl.production_line_key = ie.production_line_key).line_name

IssueLabelOf(ie) ==
  (CHOOSE it \in issueTypes : it.issue_type_key = ie.issue_type_key)
    .issue_label

CellOf(ie) == <<ie.week_start_date, LineNameOf(ie), IssueLabelOf(ie)>>

CellOfRow(row) ==
  <<row.week_start_date, row.production_line, row.defect_type>>

\* The stored events of a cell, whatever their quantity.
EventsOfCell(cell) == {ie \in events : CellOf(ie) = cell}

InWeekRange(week, startWeek, endWeek) ==
  DateLessEq(startWeek, week) /\ DateLessEq(week, endWeek)

\* C20: the weekly summary over an inclusive week range has exactly one row
\* per (week start, line name, issue label) cell that has at least one event
\* of quantity > 0 in the range, and no other row; the row's total is the
\* sum of the quantities of the cell's events, so that events of quantity 0
\* add nothing and a cell with only such events has no row.
C20_WeeklySummaryCells ==
  last.op = "getWeeklySummary" =>
    LET rows == last.rows
        cells == {CellOf(ie) :
                    ie \in {e \in events :
                              /\ e.qty_impacted > 0
                              /\ InWeekRange(e.week_start_date,
                                             last.startWeek, last.endWeek)}}
    IN /\ \A cell \in cells :
            Cardinality({i \in DOMAIN rows : CellOfRow(rows[i]) = cell}) = 1
       /\ \A i \in DOMAIN rows :
            /\ CellOfRow(rows[i]) \in cells
            /\ rows[i].total_defects = SumQty(EventsOfCell(CellOfRow(rows[i])))
            /\ rows[i].total_defects > 0

\* A summary over all seeded weeks in which the Leak cell of 2026-02-02 holds
\* only an event of quantity 0 and has no row, while the Scratch cell of
\* 2026-01-19 sums a production event, a shipping event and an event of
\* quantity 0 into one row of total 7.
C20_Witness ==
  /\ last.op = "getWeeklySummary"
  /\ last.startWeek = <<2026, 1, 19>>
  /\ last.endWeek = <<2026, 2, 9>>
  /\ EventsOfCell(<<(<<2026, 2, 2>>), Line1, Leak>>) # {}
  /\ \A ie \in EventsOfCell(<<(<<2026, 2, 2>>), Line1, Leak>>) :
       ie.qty_impacted = 0
  /\ \A i \in DOMAIN last.rows :
       CellOfRow(last.rows[i]) # <<(<<2026, 2, 2>>), Line1, Leak>>
  /\ Cardinality(EventsOfCell(<<(<<2026, 1, 19>>), Line1, Scratch>>)) = 3
  /\ \E i \in DOMAIN last.rows :
       /\ CellOfRow(last.rows[i]) = <<(<<2026, 1, 19>>), Line1, Scratch>>
       /\ last.rows[i].total_defects = 7

\* A detail row shows the event ie.
ShowsEvent(row, ie) ==
  /\ row.event_source = ie.event_source
  /\ row.event_date = ie.event_date
  /\ row.week_start_date = ie.week_start_date
  /\ row.qty_impacted = ie.qty_impacted
  /\ row.production_log_key = ie.production_log_key
  /\ row.shipping_log_key = ie.shipping_log_key
  /\ row.line_name = LineNameOf(ie)
  /\ row.defect_type = IssueLabelOf(ie)

\* C21: the drill-down of a (week start, line name, defect label) triple
\* returns, one row each, every stored event whose week, line name and issue
\* label equal the triple, whatever its quantity (0 included), and no event
\* of another cell.
C21_DrillDownReturnsTheCell ==
  last.op = "getWeeklyDetails" =>
    LET cell == <<last.weekStart, last.productionLine, last.defectType>>
    IN /\ Len(last.rows) = Cardinality(EventsOfCell(cell))
       /\ \E shown \in [DOMAIN last.rows -> EventsOfCell(cell)] :
            /\ \A i \in DOMAIN last.rows : ShowsEvent(last.rows[i], shown[i])
            /\ \A i, k \in DOMAIN last.rows : shown[i] = shown[k] => i = k
       /\ \A i \in DOMAIN last.rows :
            /\ last.rows[i].week_start_date = last.weekStart
            /\ last.rows[i].line_name = last.productionLine
            /\ last.rows[i].defect_type = last.defectType

\* The drill-down of Scratch on Line 1 in the week of 2026-01-19 when the cell
\* holds three events, one of quantity 0 and one from shipping, and events of
\* other cells are stored too.
C21_Witness ==
  /\ last.op = "getWeeklyDetails"
  /\ last.weekStart = <<2026, 1, 19>>
  /\ last.productionLine = Line1
  /\ last.defectType = Scratch
  /\ Len(last.rows) = 3
  /\ \E i \in DOMAIN last.rows : last.rows[i].qty_impacted = 0
  /\ \E i \in DOMAIN last.rows : last.rows[i].event_source = "SHIPPING"
  /\ \E ie \in events : CellOf(ie) # <<last.weekStart, Line1, Scratch>>

\* The date of the record a flag was raised for: its run date or ship date.
OriginatingDate(f) ==
  IF f.source = "PRODUCTION_LOG"
  THEN prodLogs[f.production_log_key].run_date
  ELSE shipLogs[f.shipping_log_key].ship_date

\* The day number of the Monday on or before a date.
MondayOf(date) ==
  CHOOSE z \in (parseIsoDateUTC(date) - 6)..parseIsoDateUTC(date) :
    GetUTCDay(z) = 1

\* The flags of a type whose originating record is dated in the week that
\* starts on the Monday week.
FlagsOfWeek(week, flagType) ==
  {f \in flags :
     /\ f.flag_type = flagType
     /\ OriginatingDate(f) # NullDate
     /\ toIsoDateUTC(MondayOf(OriginatingDate(f))) = week}

\* C22: for an inclusive week range, the flag counts have exactly one row
\* for each (week, flag type) inside the range with at least one flag whose
\* originating record's run date or ship date falls in that week, the row's
\* count is the number of those flags, and no row is of a week outside the
\* range.
C22_FlagCountsPerWeekAndType ==
  last.op = "getFlagCounts" =>
    LET rows == last.rows
        groups == {<<toIsoDateUTC(MondayOf(OriginatingDate(f))), f.flag_type>> :
                     f \in {g \in flags : OriginatingDate(g) # NullDate}}
        inRange == {g \in groups :
                      InWeekRange(g[1], last.startWeek, last.endWeek)}
    IN /\ \A g \in inRange :
            Cardinality({i \in DOMAIN rows :
                           /\ rows[i].week_start_date = g[1]
                           /\ rows[i].flag_type = g[2]}) = 1
       /\ \A i \in DOMAIN rows :
            /\ <<rows[i].week_start_date, rows[i].flag_type>> \in inRange
            /\ rows[i].flagged_count =
                 Cardinality(FlagsOfWeek(rows[i].week_start_date,
                                         rows[i].flag_type))

\* Flag counts over 2026-01-26 .. 2026-02-02 after everything was ingested:
\* the week of 2026-02-02 counts three unmatched lots (dated Monday, Thursday
\* and Sunday, from both sources), the flags of 2026-01-19 and 2026-02-09 are
\* stored but outside the range.
C22_Witness ==
  /\ last.op = "getFlagCounts"
  /\ last.startWeek = <<2026, 1, 26>>
  /\ last.endWeek = <<2026, 2, 2>>
  /\ \E i \in DOMAIN last.rows :
       /\ last.rows[i].week_start_date = <<2026, 2, 2>>
       /\ last.rows[i].flag_type = "UNMATCHED_LOT_ID"
       /\ last.rows[i].flagged_count = 3
  /\ FlagsOfWeek(<<2026, 1, 19>>, "UNMATCHED_LOT_ID") # {}
  /\ FlagsOfWeek(<<2026, 2, 9>>, "INCOMPLETE_DATA") # {}
  /\ \E f \in flags : OriginatingDate(f) = NullDate

\* A Monday known from the calendar: 2026-02-02.
KnownMonday == DaysFromCivil(2026, 2, 2)

\* C23: for every calendar date d, getWeekStartUTC(d) is a Monday at most six
\* days before d and never after it, it is its own week start, and the seven
\* days from it (Monday to Sunday) all have it as their week start;
\* 2026-02-04 has 2026-02-02.
C23_WeekBucketing ==
  /\ last.op = "getWeekStartUTC" =>
       /\ (last.weekStart - KnownMonday) % 7 = 0
       /\ last.date - last.weekStart \in 0..6
       /\ getWeekStartUTC(last.weekStart) = last.weekStart
       /\ \A k \in 0..6 : getWeekStartUTC(last.weekStart + k) = last.weekStart
  /\ toIsoDateUTC(getWeekStartUTC(parseIsoDateUTC(Feb4))) = <<2026, 2, 2>>

\* The week start of Sunday 2026-03-01 was computed: the Monday is in the
\* month before, 2026-02-23.
C23_Witness ==
  /\ last.op = "getWeekStartUTC"
  /\ toIsoDateUTC(last.date) = <<2026, 3, 1>>
  /\ toIsoDateUTC(last.weekStart) = <<2026, 2, 23>>

\* Outside the years 0000 to 0099 the week start is as C23 states.
WeekBucketingFromYear100 ==
  (last.op = "getWeekStartUTC" /\ toIsoDateUTC(last.date)[1] >= 100) =>
    /\ (last.weekStart - KnownMonday) % 7 = 0
    /\ last.date - last.weekStart \in 0..6
    /\ getWeekStartUTC(last.weekStart) = last.weekStart
    /\ \A k \in 0..6 : getWeekStartUTC(last.weekStart + k) = last.weekStart

\* In the first call, a committed production pass selected records i and j,
\* i before j: both otherwise valid, for one lot, claiming different lines,
\* and i the first otherwise-valid record of the batch for that lot.
SameBatchConflict(i, j) ==
  /\ runs = 1
  /\ Committed(last.production)
  /\ \E p, q \in DOMAIN last.production.selected :
       /\ p < q
       /\ last.production.selected[p] = i
       /\ last.production.selected[q] = j
  /\ i < j
  /\ OtherwiseValid(prodLogs[i])
  /\ OtherwiseValid(prodLogs[j])
  /\ LotOf(prodLogs[i]) = LotOf(prodLogs[j])
  /\ prodLogs[i].production_line_key # prodLogs[j].production_line_key
  /\ \A k \in 1..(i - 1) :
       OtherwiseValid(prodLogs[k]) => LotOf(prodLogs[k]) # LotOf(prodLogs[i])

\* C24: the records of a batch are processed in ascending key order, each
\* seeing the writes of the earlier ones: of two otherwise-valid production
\* records of one batch that claim different lines for the same unassigned
\* lot, the lower-keyed one is accepted (an IssueEvent, no flag) and sets the
\* ledger, and the higher-keyed one is flagged CONFLICT.
C24_EarlierRecordOfBatchWins ==
  \A i, j \in DOMAIN prodLogs :
    SameBatchConflict(i, j) =>
      /\ Cardinality(ProductionEvents(i)) = 1
      /\ ProductionFlags(i) = {}
      /\ {a.production_line_key :
            a \in {b \in ledger : b.lot_key = LotOf(prodLogs[i])}}
           = {prodLogs[i].production_line_key}
      /\ {f.flag_type : f \in ProductionFlags(j)} = {"CONFLICT"}
      /\ ProductionEvents(j) = {}

\* The order and ledger part of C24 alone: the lower-keyed record is not
\* flagged and its line is the lot's only assignment, the higher-keyed one
\* is flagged CONFLICT and has no event.
EarlierRecordOfBatchSetsLedger ==
  \A i, j \in DOMAIN prodLogs :
    SameBatchConflict(i, j) =>
      /\ ProductionFlags(i) = {}
      /\ {a.production_line_key :
            a \in {b \in ledger : b.lot_key = LotOf(prodLogs[i])}}
           = {prodLogs[i].production_line_key}
      /\ {f.flag_type : f \in ProductionFlags(j)} = {"CONFLICT"}
      /\ Cardinality(ProductionFlags(j)) = 1
      /\ ProductionEvents(j) = {}

\* A same-batch conflict whose lower-keyed record has quantity 1.
SameBatchConflictReached ==
  \E i, j \in DOMAIN prodLogs :
    SameBatchConflict(i, j) /\ prodLogs[i].line_issue_flag = "true"

\* Both passes have ended, their records are otherwise valid and claim
\* different lines for one lot.
RacedForOneLot ==
  /\ \A s \in Sessions : sessions.outcome[s] # "none"
  /\ \A s \in Sessions : sessions.client[s].pc = "idle"
  /\ OtherwiseValid(prodLogs[1])
  /\ OtherwiseValid(prodLogs[2])
  /\ LotOf(prodLogs[1]) = LotOf(prodLogs[2])
  /\ prodLogs[1].production_line_key # prodLogs[2].production_line_key

\* C25: when two production passes interleave and claim different lines for
\* the same unassigned lot, exactly one assignment row is stored for the lot,
\* one pass is first and projects its record, and the other pass flags its
\* record CONFLICT.
C25_LedgerInsertIfAbsent ==
  RacedForOneLot =>
    /\ Cardinality({a \in ledger : a.lot_key = LotOf(prodLogs[1])}) = 1
    /\ \E s \in Sessions :
         /\ sessions.outcome[s] = "projected"
         /\ \A t \in Sessions \ {s} :
              /\ sessions.outcome[t] = "flagged"
              /\ {f.flag_type : f \in ProductionFlags(RecordOf(t))}
                   = {"CONFLICT"}

\* What the uniqueness constraint on the lot keeps: one assignment row per
\* lot at most, and every stored production event on the line of its lot's
\* assignment.
LedgerRaceKeepsOneLine ==
  /\ \A a, b \in ledger : a.lot_key = b.lot_key => a = b
  /\ \A ie \in events : \E a \in ledger :
       /\ a.lot_key = ie.lot_key
       /\ a.production_line_key = ie.production_line_key

\* Both passes read the ledger before either wrote it, and the one whose
\* insert came second ended with the storage error.
RaceLostByError ==
  /\ RacedForOneLot
  /\ \E s \in Sessions :
       /\ sessions.outcome[s] = "threw"
       /\ sessions.assigned[s] = NullKey
       /\ ProductionFlags(RecordOf(s)) = {}

\* line_issue_flag is a nullable boolean column.
IssueIndicators == {"true", "false", "null"}

\* C26: the quantity computed for a production record is 1 when
\* line_issue_flag is true, 0 when it is false and 1 when it is absent, never
\* another value, and an event projected from the record stores that
\* quantity.
C26_ProductionQuantityMapping ==
  \A k \in DOMAIN prodLogs :
    /\ prodLogs[k].line_issue_flag \in IssueIndicators
    /\ prodLogs[k].line_issue_flag = "true"
         => deriveProductionQty(prodLogs[k]) = 1
    /\ prodLogs[k].line_issue_flag = "false"
         => deriveProductionQty(prodLogs[k]) = 0
    /\ prodLogs[k].line_issue_flag = "null"
         => deriveProductionQty(prodLogs[k]) = 1
    /\ \A ie \in ProductionEvents(k) :
         ie.qty_impacted = (IF prodLogs[k].line_issue_flag = "false"
                            THEN 0 ELSE 1)

\* A record without the indicator was projected, with quantity 1.
C26_Witness ==
  \E k \in DOMAIN prodLogs :
    /\ prodLogs[k].line_issue_flag = "null"
    /\ \E ie \in ProductionEvents(k) : ie.qty_impacted = 1

\* C27: every stored event of source SHIPPING has quantity 1, is for the lot
\* its shipping record resolves to, and is on the line the ledger holds for
\* that lot (the ledger has one line per lot and never changes it, so the
\* line read when the record was processed is the line stored now).
C27_ShippingEventLineAndQuantity ==
  \A ie \in events :
    ie.event_source = "SHIPPING" =>
      /\ ie.qty_impacted = 1
      /\ ie.shipping_log_key \in DOMAIN shipLogs
      /\ FindLot(Database, normalizeLotId(shipLogs[ie.shipping_log_key].lot_id_raw))
           = {l \in lots : l.lot_key = ie.lot_key}
      /\ {a.production_line_key : a \in {b \in ledger : b.lot_key = ie.lot_key}}
           = {ie.production_line_key}

\* A shipment of a lot assigned to line B was projected on line B while
\* another lot is assigned to line A.
C27_Witness ==
  \E ie \in events :
    /\ ie.event_source = "SHIPPING"
    /\ ie.production_line_key = LineB
    /\ \E a \in ledger :
         a.lot_key # ie.lot_key /\ a.production_line_key = LineA

\* The event was made from the raw record it refers to: date, lot and (for
\* production) line and label are the record's.
MadeFromProductionRecord(ie, row) ==
  /\ ie.event_date = row.run_date
  /\ ie.production_line_key = row.production_line_key
  /\ ie.lot_key = row.lot_key
  /\ \E it \in issueTypes :
       /\ it.issue_type_key = ie.issue_type_key
       /\ it.source = "PRODUCTION"
       /\ it.issue_label_norm = normalizeLabel(row.primary_issue)

MadeFromShippingRecord(ie, row) ==
  /\ ie.event_date = row.ship_date
  /\ ie.lot_key = row.lot_key
  /\ \E it \in issueTypes :
       /\ it.issue_type_key = ie.issue_type_key
       /\ it.source = "SHIPPING"
       /\ it.issue_label_norm = normalizeLabel(row.hold_reason)

BackReferenced(ie) ==
  \/ /\ ie.event_source = "PRODUCTION"
     /\ ie.production_log_key \in DOMAIN prodLogs
     /\ ie.shipping_log_key = NullKey
     /\ MadeFromProductionRecord(ie, prodLogs[ie.production_log_key])
  \/ /\ ie.event_source = "SHIPPING"
     /\ ie.shipping_log_key \in DOMAIN shipLogs
     /\ ie.production_log_key = NullKey
     /\ MadeFromShippingRecord(ie, shipLogs[ie.shipping_log_key])

\* The record an event refers to.
ReferenceOf(ie) ==
  IF ie.event_source = "PRODUCTION"
  THEN <<"PRODUCTION_LOG", ie.production_log_key, "projected">>
  ELSE <<"SHIPPING_LOG", ie.shipping_log_key, "projected">>

\* C28: every event carries exactly one back-reference: a PRODUCTION event
\* has production_log_key set and shipping_log_key null, a SHIPPING event has
\* shipping_log_key set and production_log_key null; the record referred to
\* is the one the event was made from, and an event written by a call refers
\* to a record that call selected and projected.
C28_ExactlyOneBackReference ==
  /\ [](\A ie \in events : BackReferenced(ie))
  /\ [][\A ie \in events' \ events : ReferenceOf(ie) \in LastSelected']_vars

\* One call projected a production record and a shipping record; both events
\* are stored.
C28_Witness ==
  /\ \E ie \in events :
       ie.event_source = "PRODUCTION" /\ ReferenceOf(ie) \in LastSelected
  /\ \E ie \in events :
       ie.event_source = "SHIPPING" /\ ReferenceOf(ie) \in LastSelected

\* The Monday on or before a date, counted from a known Monday.
MondayOnOrBefore(date) ==
  toIsoDateUTC(CHOOSE z \in (DaysFromCivil(date[1], date[2], date[3]) - 6)
                            ..DaysFromCivil(date[1], date[2], date[3]) :
                 (z - KnownMonday) % 7 = 0)

\* The run date or ship date of the record an event refers to.
RecordDateOf(ie) ==
  IF ie.event_source = "PRODUCTION"
  THEN prodLogs[ie.production_log_key].run_date
  ELSE shipLogs[ie.shipping_log_key].ship_date

\* C29: every stored event has eventDate equal to the run date or ship date
\* of its record, and weekStartDate equal to the Monday on or before its
\* eventDate.
C29_EventWeekIsMondayOfEventDate ==
  \A ie \in events :
    /\ ie.event_date = RecordDateOf(ie)
    /\ ie.week_start_date = MondayOnOrBefore(ie.event_date)

\* C29 for the events dated in the year 0100 or later.
EventWeekIsMondayFromYear100 ==
  \A ie \in events :
    /\ ie.event_date = RecordDateOf(ie)
    /\ ie.event_date[1] >= 100
         => ie.week_start_date = MondayOnOrBefore(ie.event_date)

\* Events of both sources whose Monday lies in another month or year than
\* their date.
EventWeekAcrossBoundaryReached ==
  /\ \E ie \in events :
       /\ ie.event_source = "PRODUCTION"
       /\ ie.event_date = <<2027, 1, 1>>
       /\ ie.week_start_date = <<2026, 12, 28>>
  /\ \E ie \in events :
       /\ ie.event_source = "SHIPPING"
       /\ ie.event_date = <<2026, 3, 1>>
       /\ ie.week_start_date = <<2026, 2, 23>>

\* Resolution of a raw record as stored now, and as it was before its lot key
\* was written back.
ResolvedNow(source, key, row) ==
  resolveLotKey(Database, source, key, row.lot_key, row.lot_id_raw)

ResolvedFromRaw(source, key, row) ==
  resolveLotKey(Database, source, key, NullKey, row.lot_id_raw)

SameResolution(source, key, row) ==
  row.lot_key # NullKey =>
    /\ ~ ResolvedNow(source, key, row).unmatched
    /\ ~ ResolvedFromRaw(source, key, row).unmatched
    /\ ResolvedNow(source, key, row).lotKey = row.lot_key
    /\ ResolvedNow(source, key, row).lotKey
         = ResolvedFromRaw(source, key, row).lotKey
    /\ ResolvedNow(source, key, row).lotIdNorm
         = ResolvedFromRaw(source, key, row).lotIdNorm
    /\ ~ ResolvedNow(source, key, row).wrote

\* C30: once resolveLotKey has resolved a raw identifier and written the lot
\* key on the raw record, resolving the record again (through the stored key,
\* without normalizing) gives the same lot key and normalized id as resolving
\* the raw identifier does; the stored key is never changed by a later run,
\* and every flag of the record that names a lot names that one.
C30_BackfillKeepsResolution ==
  /\ [](/\ \A k \in DOMAIN prodLogs :
             SameResolution("PRODUCTION_LOG", k, prodLogs[k])
        /\ \A k \in DOMAIN shipLogs :
             SameResolution("SHIPPING_LOG", k, shipLogs[k])
        /\ \A f \in flags :
             (f.lot_id_norm # NullText /\ f.production_log_key # NullKey)
               => f.lot_id_norm
                    = normalizeLotId(prodLogs[f.production_log_key].lot_id_raw))
  /\ [][/\ \A k \in DOMAIN prodLogs :
             prodLogs[k].lot_key # NullKey
               => prodLogs'[k].lot_key = prodLogs[k].lot_key
        /\ \A k \in DOMAIN shipLogs :
             shipLogs[k].lot_key # NullKey
               => shipLogs'[k].lot_key = shipLogs[k].lot_key]_vars

\* A production record whose lot key was written back by the first run was
\* selected again by the second run and resolved through the stored key: it
\* has a flag from each run, both naming its lot.
C30_Witness ==
  /\ runs = 2
  /\ \E k \in DOMAIN prodLogs :
       /\ prodLogs[k].lot_key # NullKey
       /\ <<"PRODUCTION_LOG", k, "flagged">> \in LastSelected
       /\ Cardinality(ProductionFlags(k)) = 2
       /\ \A f \in ProductionFlags(k) :
            f.lot_id_norm = normalizeLotId(prodLogs[k].lot_id_raw)

\* The required fields a production record lacks, as the note is to name
\* them.
AbsentRequiredFields(row) ==
  IF row.run_date = NullDate /\ row.production_line_key = NullKey
  THEN "run_date, production_line_key"
  ELSE IF row.run_date = NullDate THEN "run_date"
  ELSE IF row.production_line_key = NullKey THEN "production_line_key"
  ELSE "none"

\* The flags raised by the required-fields check of the production loop.
RequiredFieldFlags ==
  {f \in flags :
     /\ f.production_log_key # NullKey
     /\ f.flag_type = "INCOMPLETE_DATA"
     /\ AbsentRequiredFields(prodLogs[f.production_log_key]) # "none"}

\* C31: a production record flagged INCOMPLETE_DATA for a missing required
\* field has a missing-fields note naming exactly the absent fields: run_date
\* alone, production_line_key alone, or both.
C31_MissingFieldsNoteNamesAbsentFields ==
  \A f \in RequiredFieldFlags :
    f.missing_fields = AbsentRequiredFields(prodLogs[f.production_log_key])

\* What the code does: the note of those flags is the same text whichever of
\* the two fields is absent.
MissingFieldsNoteIsFixed ==
  \A f \in RequiredFieldFlags :
    /\ f.missing_fields = "run_date, production_line_key"
    /\ f.flag_reason = "Missing run_date or production_line_key"

\* A record lacking only its run date and one lacking only its line have
\* been flagged.
OneRequiredFieldMissingReached ==
  \E f \in RequiredFieldFlags :
    AbsentRequiredFields(prodLogs[f.production_log_key])
      \in {"run_date", "production_line_key"}

\* C32: IssueEvents and DataQualityFlags are immutable: every step of
\* processing keeps each stored event and each stored flag as it is, column
\* for column, so the two tables only grow.
C32_EventsAndFlagsOnlyGrow ==
  [][/\ events \subseteq events'
     /\ flags \subseteq flags']_vars

\* A second committed run has added a flag to a record flagged by the first
\* run, beside stored events: the older flag and the events are still there.
C32_Witness ==
  /\ runs = 2
  /\ ~ last.threw
  /\ events # {}
  /\ \E k \in DOMAIN prodLogs : Cardinality(ProductionFlags(k)) = 2

\* C33: the shipping pass only reads the line-assignment ledger: a call of
\* processShippingLogs, and the shipping pass of a processAllLogs call whose
\* production pass selected nothing, leave every ledger row as it was and add
\* none, whatever the shipping records contain and wherever the pass fails.
C33_ShippingPassLeavesLedger ==
  [][/\ (Called /\ last'.op = "shipping") => ledger' = ledger
     /\ (Called /\ last'.op = "all" /\ last'.production.selected = <<>>)
          => ledger' = ledger]_vars

\* A committed processShippingLogs call has projected a shipment through the
\* ledger line of its lot.
C33_Witness ==
  /\ last.op = "shipping"
  /\ Committed(last.shipping)
  /\ \E i \in DOMAIN last.shipping.selected :
       /\ last.shipping.outcomes[i] = "projected"
       /\ \E ie \in ShippingEvents(last.shipping.selected[i]) :
            \E a \in ledger : /\ a.lot_key = ie.lot_key
                              /\ a.production_line_key = ie.production_line_key

\* A raw record has an outcome: an IssueEvent or a DataQualityFlag.
ProductionOutcome(k) == ProductionEvents(k) # {} \/ ProductionFlags(k) # {}
ShippingOutcome(k) == ShippingEvents(k) # {} \/ ShippingFlags(k) # {}

\* Every raw record has an outcome and an invocation would select nothing.
Settled ==
  /\ \A k \in DOMAIN prodLogs : ProductionOutcome(k)
  /\ \A k \in DOMAIN shipLogs : ShippingOutcome(k)
  /\ UnprocessedProductionKeys(Database) = {}
  /\ UnprocessedShippingKeys(Database) = {}

\* The production records of the last call's batch that had an outcome
\* before the call.
SelectedWithOutcome ==
  {k \in Range(last'.production.selected) : ProductionOutcome(k)}

\* C34: invoking processAllLogs repeatedly, with any batch size >= 1, on a
\* finite set of raw records eventually reaches a state in which every record
\* has an outcome and an invocation selects nothing; and no invocation spends
\* a place of its batch on a record that already has an outcome.
C34_ProgressUnderBoundedBatches ==
  /\ <>Settled
  /\ [][Called => SelectedWithOutcome = {}]_vars

\* What the code does reach: when no record is rejected or of zero quantity,
\* the invocations settle every record.
ProgressWhenEveryRecordProjects ==
  <>(\/ Settled
     \/ flags # {}
     \/ \E k \in DOMAIN prodLogs : SkipsProjection(deriveProductionQty(prodLogs[k])))

\* A batch of size 1 was spent on a record flagged by an earlier invocation
\* while a later record has no outcome yet.
FlaggedRecordHoldsTheBatch ==
  /\ runs = MaxRuns
  /\ last.batchSize = 1
  /\ \E k \in Range(last.production.selected) :
       /\ Cardinality(ProductionFlags(k)) >= 2
       /\ \E later \in DOMAIN prodLogs : later > k /\ ~ ProductionOutcome(later)

\* A call of a pass has returned or thrown.
CallEnded == sessions.pc = "idle" /\ sessions.ended \in {"returned", "threw"}

\* C35: on every execution path of processProductionLogs and
\* processShippingLogs, a failure of any query included, when the call
\* returns or throws the transaction opened by BEGIN has been ended (COMMIT
\* succeeded, or ROLLBACK was issued) and the pooled client has been released
\* exactly once; it is not released before, and a call returns only after a
\* successful COMMIT.
C35_TransactionAndConnectionDiscipline ==
  /\ sessions.releases <= 1
  /\ sessions.releases = 1 => sessions.client = "released"
  /\ (sessions.pc # "idle") => sessions.releases = 0
  /\ CallEnded =>
       /\ sessions.client # "none"
            => sessions.releases = 1 /\ sessions.client = "released"
       /\ sessions.tx # "none"
            => sessions.tx = "committed" \/ sessions.rollbacks >= 1
       /\ sessions.ended = "returned"
            => sessions.tx = "committed" /\ sessions.rollbacks = 0
       /\ sessions.ended = "threw" /\ sessions.client # "none"
            => sessions.tx # "committed" /\ sessions.rollbacks = 1

\* A statement of the loop threw in an open transaction: ROLLBACK was issued,
\* the client released, and the call threw, its writes undone.
C35_Witness ==
  /\ CallEnded
  /\ sessions.ended = "threw"
  /\ sessions.tx = "rolled back"
  /\ sessions.left > 0
  /\ sessions.rollbacks = 1
  /\ sessions.releases = 1
  /\ flags = {}

\* The ledger lines of a lot.
AssignedLines(lotKey) ==
  {a.production_line_key : a \in {b \in ledger : b.lot_key = lotKey}}

\* C36: in every reachable state, for every IssueEvent created by processing
\* the ledger has an assignment for the event's lot, and the event's
\* production line is that assigned line.
C36_LedgerEventConsistency ==
  \A ie \in events : AssignedLines(ie.lot_key) = {ie.production_line_key}

\* A production event and a shipping event of one lot both carry the lot's
\* ledger line, while a production record claiming another line for that lot
\* was flagged CONFLICT and has no event.
C36_Witness ==
  /\ \E pe \in events : \E se \in events :
       /\ pe.event_source = "PRODUCTION"
       /\ se.event_source = "SHIPPING"
       /\ pe.lot_key = se.lot_key
       /\ AssignedLines(pe.lot_key) = {pe.production_line_key}
       /\ se.production_line_key = pe.production_line_key
       /\ \E f \in flags :
            /\ f.flag_type = "CONFLICT"
            /\ prodLogs[f.production_log_key].lot_key = pe.lot_key
            /\ prodLogs[f.production_log_key].production_line_key
                 # pe.production_line_key
            /\ ProductionEvents(f.production_log_key) = {}

\* The lots of the records the production pass of the step's call ended
\* with one of the given outcomes.
LotsEnded(outcomes) ==
  {prodLogs'[last'.production.selected[i]].lot_key :
     i \in {j \in DOMAIN last'.production.selected :
              last'.production.outcomes[j] \in outcomes}}

\* The ledger rows the step wrote.
LedgerWritten == ledger' \ ledger

\* C37: only accepted production records write the ledger: a production
\* record that ends without an IssueEvent (flagged, or given no outcome)
\* leaves the ledger as it was, so every ledger row a committed pass wrote
\* is for the lot of a record that pass projected.
C37_OnlyAcceptedRecordsWriteLedger ==
  [][(Called /\ Committed(last'.production))
       => \A a \in LedgerWritten : a.lot_key \in LotsEnded({"projected"})]_vars

\* What the code keeps: a flagged record writes no ledger row; each row
\* written is for a record the pass projected or ended on the quantity test.
FlaggedRecordsLeaveLedger ==
  [][(Called /\ Committed(last'.production))
       => /\ \A a \in LedgerWritten :
               a.lot_key \in LotsEnded({"projected", "skipped"})
          /\ (\A i \in DOMAIN last'.production.outcomes :
                last'.production.outcomes[i] = "flagged")
               => ledger' = ledger]_vars

\* A record of zero quantity ended without event or flag and the ledger
\* holds the line it claimed for its lot.
UnprojectedRecordWroteLedger ==
  /\ Committed(last.production)
  /\ \E i \in DOMAIN last.production.selected :
       LET k == last.production.selected[i]
       IN /\ last.production.outcomes[i] = "skipped"
          /\ ProductionEvents(k) = {} /\ ProductionFlags(k) = {}
          /\ Cardinality(ledger) = 1
          /\ \E a \in ledger :
               /\ a.lot_key = prodLogs[k].lot_key
               /\ a.production_line_key = prodLogs[k].production_line_key
          /\ events = {}

\* The sum of qty_impacted over the rows getWeeklyDetails returns for a
\* cell, one row per joined event.
RECURSIVE DetailQuantity(_)
DetailQuantity(joined) ==
  IF joined = {} THEN 0
  ELSE LET j == CHOOSE x \in joined : TRUE
       IN DetailRow(Database, j).qty_impacted + DetailQuantity(joined \ {j})

DetailsOfRow(row) ==
  DetailsJoin(Database, row.week_start_date, row.production_line,
              row.defect_type)

\* C38: for every row (week, line, defect, total) that getWeeklySummary
\* returns, total equals the sum of qty_impacted over the rows that
\* getWeeklyDetails returns for that week, line and defect.
C38_SummaryTotalsAuditable ==
  last.op = "getWeeklySummary" =>
    \A i \in DOMAIN last.rows :
      last.rows[i].total_defects = DetailQuantity(DetailsOfRow(last.rows[i]))

\* A summary row whose cell has three detail rows: events from both sources
\* under one label, one of them of quantity 0 and left out of the summary.
C38_Witness ==
  /\ last.op = "getWeeklySummary"
  /\ \E i \in DOMAIN last.rows :
       /\ Cardinality(DetailsOfRow(last.rows[i])) = 3
       /\ \E j \in DetailsOfRow(last.rows[i]) : j.ie.qty_impacted = 0
       /\ \E j \in DetailsOfRow(last.rows[i]) : j.ie.event_source = "SHIPPING"
       /\ \E j \in DetailsOfRow(last.rows[i]) : j.ie.event_source = "PRODUCTION"
       /\ last.rows[i].total_defects = 7

\* The flagged_count values of the rows of a report, added up.
RECURSIVE CountTotal(_)
CountTotal(rows) ==
  IF rows = <<>> THEN 0
  ELSE Head(rows).flagged_count + CountTotal(Tail(rows))

\* The last call read the flag counts over a range that covers every week
\* of the raw records.
FullRangeFlagCounts ==
  /\ last.op = "getFlagCounts"
  /\ \A date \in WeekArguments :
       DateLessEq(last.startWeek, date) /\ DateLessEq(date, last.endWeek)

\* C39: when the requested range covers every week, each DataQualityFlag
\* created by processing is counted in exactly one (week, flagType) row of
\* getFlagCounts: the flagged_count values sum to the number of flags, flags
\* of records whose date is missing included.
C39_FlagCountsComplete ==
  FullRangeFlagCounts => CountTotal(last.rows) = Cardinality(flags)

\* What the code counts: the flags of records that have a date.
DatedFlagCountsComplete ==
  FullRangeFlagCounts =>
    CountTotal(last.rows)
      = Cardinality({f \in flags : OriginatingDate(f) # NullDate})

\* Flag counts were read over the full range after a record without date
\* had been flagged.
FlagOfUndatedRecordReported ==
  /\ FullRangeFlagCounts
  /\ \E f \in flags : OriginatingDate(f) = NullDate
  /\ last.rows # <<>>

====
